---- MODULE Spec2Model ----
(***************************************************************************)
(* Model of the typed-row decoder of tss182/excel (src/excel.go): the      *)
(* binding compiler, the value coercion layer and the paginated Read/Next  *)
(* protocol over the forward-only row cursor.                              *)
(*                                                                         *)
(* Texts (cell texts, header labels, tags) are sequences of one-character  *)
(* strings, so that trimming, splitting, cleaning and parsing are computed *)
(* character by character as the code does.                                *)
(***************************************************************************)
EXTENDS Integers, Sequences, FiniteSets, TLC

VARIABLES
    file,      \* e.file: the rows of the sheet, each row a sequence of cell texts
    callOpt,   \* the Opt value the caller passes to Read
    rt,        \* e.rt: the record type T
    opt,       \* e.opt
    rows,      \* e.rows: the row cursor (number of Next() calls made on it), NoCursor before Read
    IsNext,    \* e.IsNext
    rules,     \* e.rules
    out,       \* *out: the caller's output slice
    reads,     \* number of Read calls made so far
    last,      \* the last call: its name, the error it returned and the state before it
    pages,     \* number of records appended by each call of the current Read session that returned nil
    instancePool, \* e.instancePool: the instances put back and not taken again
    jobs,      \* worker-pool getRows: the jobs channel, its buffer and whether it is closed
    results,   \* worker-pool getRows: the buffer of the results channel
    wk,        \* worker-pool getRows: the worker goroutines, each at its receive, at its send or done
    prod,      \* worker-pool getRows: the calling goroutine, its position and locals
    cRaw,      \* coercion harness: the raw cell text
    cKind,     \* coercion harness: the kind of the target field
    cRes,      \* coercion harness: the result of setFieldValueOptimizedDirect
    colArg,   \* column utility harness: the argument, a 0-based index or a label text
    colRes,  \* column utility harness: the results of the calls made, in call order
    opened,   \* the number of row cursors the session has opened (e.file.Rows); e.rows is the last one
    released,  \* the cursors that have been closed, by their number
    book,   \* File facade: the cells of the workbook f (sheet Sheet1), cell name -> stored text
    disk,   \* File facade: the file SaveAs wrote, if any
    book2,   \* File facade: the workbook OpenExcelFile opened from the saved file, if any
    written,   \* File facade: the texts of the values the caller has set, cell by cell: now, as of the last SaveAs and as of the file reopened
    table   \* File facade: the arguments of the CreateSimpleTable call made, if any

vars == <<file, callOpt, rt, opt, rows, IsNext, rules, out, reads, last, pages, instancePool,
          jobs, results, wk, prod, cRaw, cKind, cRes,
          colArg, colRes,
          opened, released,
          book, disk, book2, written, table>>

sessionVars == <<file, callOpt, rt, opt, rows, IsNext, rules, out, reads, last, pages, instancePool>>

coerceVars == <<cRaw, cKind, cRes>>

poolVars == <<jobs, results, wk, prod>>

colVars == <<colArg, colRes>>

cursorVars == <<opened, released>>

facadeVars == <<book, disk, book2, written, table>>

(***************************************************************************)
(* Bounds of the model.                                                    *)
(***************************************************************************)
MaxRows == 5

MaxLimit == 2

MaxReads == 1

MaxWorkers == 2

MaxPoolRows == 2

(***************************************************************************)
(* Characters and strings.                                                 *)
(***************************************************************************)
Upper == <<"A","B","C","D","E","F","G","H","I","J","K","L","M",
           "N","O","P","Q","R","S","T","U","V","W","X","Y","Z">>

Lower == <<"a","b","c","d","e","f","g","h","i","j","k","l","m",
           "n","o","p","q","r","s","t","u","v","w","x","y","z">>

DigitChars == <<"0","1","2","3","4","5","6","7","8","9">>

IsUpper(c) == \E i \in 1..26 : Upper[i] = c

IsLower(c) == \E i \in 1..26 : Lower[i] = c

IsDigit(c) == \E i \in 1..10 : DigitChars[i] = c

DigitVal(c) == (CHOOSE i \in 1..10 : DigitChars[i] = c) - 1

ToLowerCh(c) == IF IsUpper(c) THEN Lower[CHOOSE i \in 1..26 : Upper[i] = c] ELSE c

ToUpperCh(c) == IF IsLower(c) THEN Upper[CHOOSE i \in 1..26 : Lower[i] = c] ELSE c

ToLower(s) == [i \in 1..Len(s) |-> ToLowerCh(s[i])]

ToUpper(s) == [i \in 1..Len(s) |-> ToUpperCh(s[i])]

IsSpace(c) == c \in {" ", "\t", "\n", "\r"}

RECURSIVE TrimLeft(_)
TrimLeft(s) == IF s # <<>> /\ IsSpace(Head(s)) THEN TrimLeft(Tail(s)) ELSE s

RECURSIVE TrimRight(_)
TrimRight(s) ==
    IF s # <<>> /\ IsSpace(s[Len(s)]) THEN TrimRight(SubSeq(s, 1, Len(s) - 1)) ELSE s

TrimSpace(s) == TrimRight(TrimLeft(s))

HasPrefix(s, p) == Len(s) >= Len(p) /\ SubSeq(s, 1, Len(p)) = p

Contains(s, c) == \E i \in 1..Len(s) : s[i] = c

ReplaceAll(s, old, new) == [i \in 1..Len(s) |-> IF s[i] = old THEN new ELSE s[i]]

RECURSIVE Split(_, _)
Split(s, sep) ==
    IF ~Contains(s, sep) THEN <<s>>
    ELSE LET k == CHOOSE i \in 1..Len(s) : s[i] = sep /\ \A j \in 1..(i - 1) : s[j] # sep
         IN  <<SubSeq(s, 1, k - 1)>> \o Split(SubSeq(s, k + 1, Len(s)), sep)

RECURSIVE DigitsVal(_)
DigitsVal(s) == IF s = <<>> THEN 0 ELSE 10 * DigitsVal(SubSeq(s, 1, Len(s) - 1)) + DigitVal(s[Len(s)])

AllDigits(s) == \A i \in 1..Len(s) : IsDigit(s[i])

(***************************************************************************)
(* strconv, as called by the coercion layer.  A result is [ok, v]: ok is   *)
(* FALSE when the Go function returns a non-nil error.                     *)
(***************************************************************************)
Failure == [ok |-> FALSE, v |-> 0]

\* strconv.ParseUint(s, 10, 64): digits only, at least one.  The texts of the model
\* have at most MaxDigits digits, so the value is below 2^31 and the 64-bit range
\* error cannot occur.
MaxDigits == 9

ParseUint(s) ==
    IF s = <<>> \/ ~AllDigits(s) \/ Len(s) > MaxDigits THEN Failure
    ELSE [ok |-> TRUE, v |-> DigitsVal(s)]

\* strconv.ParseInt(s, 10, 64): an optional sign, then ParseUint
ParseInt(s) ==
    IF s = <<>> THEN Failure
    ELSE LET neg == Head(s) = "-"
             body == IF Head(s) \in {"+", "-"} THEN Tail(s) ELSE s
             un == ParseUint(body)
         IN  IF ~un.ok THEN Failure
             ELSE [ok |-> TRUE, v |-> IF neg THEN 0 - un.v ELSE un.v]

\* A decimal value m * 10^(-e), kept with the fewest fractional digits
RECURSIVE NormFloat(_, _)
NormFloat(m, e) ==
    IF m = 0 THEN [m |-> 0, e |-> 0]
    ELSE IF e > 0 /\ m % 10 = 0 THEN NormFloat(m \div 10, e - 1)
    ELSE [m |-> m, e |-> e]

\* strconv.ParseFloat(s, 64) on texts of digits, sign, comma, point and space:
\* an optional sign, digits with at most one decimal point and at least one digit.
\* The value is the decimal the text denotes (the float64 nearest to it).
ParseFloat(s) ==
    IF s = <<>> THEN Failure
    ELSE LET neg == Head(s) = "-"
             body == IF Head(s) \in {"+", "-"} THEN Tail(s) ELSE s
             dots == {i \in 1..Len(body) : body[i] = "."}
             wellFormed == /\ \A i \in 1..Len(body) : IsDigit(body[i]) \/ body[i] = "."
                           /\ Cardinality(dots) <= 1
                           /\ \E i \in 1..Len(body) : IsDigit(body[i])
         IN  IF ~wellFormed THEN Failure
             ELSE LET dp == IF dots = {} THEN Len(body) + 1 ELSE CHOOSE i \in dots : TRUE
                      int == SubSeq(body, 1, dp - 1)
                      frac == SubSeq(body, dp + 1, Len(body))
                      mant == DigitsVal(int \o frac)
                  IN  [ok |-> TRUE, v |-> NormFloat(IF neg THEN 0 - mant ELSE mant, Len(frac))]

\* strconv.ParseBool(s)
ParseBool(s) ==
    IF s \in {<<"1">>, <<"t">>, <<"T">>, <<"T","R","U","E">>, <<"t","r","u","e">>, <<"T","r","u","e">>}
    THEN [ok |-> TRUE, v |-> TRUE]
    ELSE IF s \in {<<"0">>, <<"f">>, <<"F">>, <<"F","A","L","S","E">>, <<"f","a","l","s","e">>,
                   <<"F","a","l","s","e">>}
    THEN [ok |-> TRUE, v |-> FALSE]
    ELSE [ok |-> FALSE, v |-> FALSE]

(***************************************************************************)
(* Package time, as called by the timestamp coercion.  A time is           *)
(* [day, sec, nsec]: the days since 1899-12-30 00:00:00 UTC (the base of   *)
(* the serial numbers), the second of that day and the nanosecond of that  *)
(* second.                                                                 *)
(***************************************************************************)
daysIn(m, y) ==
    IF m = 2 THEN (IF y % 4 = 0 /\ (y % 100 # 0 \/ y % 400 = 0) THEN 29 ELSE 28)
    ELSE IF m \in {4, 6, 9, 11} THEN 30 ELSE 31

\* time.Date(y, m, d, 0, 0, 0, 0, time.UTC).Sub(base) in days, base being
\* time.Date(1899, 12, 30, 0, 0, 0, 0, time.UTC)
daysSinceBase(y, m, d) ==
    LET yy == IF m <= 2 THEN y - 1 ELSE y
        era == yy \div 400
        yoe == yy - era * 400
        doy == (153 * (IF m > 2 THEN m - 3 ELSE m + 9) + 2) \div 5 + d - 1
        doe == yoe * 365 + yoe \div 4 - yoe \div 100 + doy
    IN  era * 146097 + doe - 719468 + 25569

lDate == <<"2","0","0","6","-","0","1","-","0","2">>

lDateSlash == <<"0","2","/","0","1","/","2","0","0","6">>

lDateTime == lDate \o <<" ","1","5",":","0","4",":","0","5">>

RFC3339 == lDate \o <<"T","1","5",":","0","4",":","0","5","Z","0","7",":","0","0">>

\* The matching loop of time.Parse: the layout elements 2006, 01, 02, 15, 04, 05
\* (fixed-width numbers) and Z07:00 (Z, or a signed hh:mm offset) take their value
\* from the text, every other layout character must be matched by the same character.
\* parseLayout collects the fields in f; ok is FALSE when the text does not match.
\* The number the first n characters of s denote, -1 when they are not n digits
leadingNum(s, n) ==
    IF Len(s) >= n /\ AllDigits(SubSeq(s, 1, n)) THEN DigitsVal(SubSeq(s, 1, n)) ELSE -1

\* The layout element at the head of l, with the width of its number; <<>> when l
\* starts with a literal character
layoutElement(l) ==
    IF HasPrefix(l, <<"2","0","0","6">>) THEN [el |-> <<"2","0","0","6">>, n |-> 4, field |-> "year"]
    ELSE IF HasPrefix(l, <<"0","1">>) THEN [el |-> <<"0","1">>, n |-> 2, field |-> "month"]
    ELSE IF HasPrefix(l, <<"0","2">>) THEN [el |-> <<"0","2">>, n |-> 2, field |-> "day"]
    ELSE IF HasPrefix(l, <<"1","5">>) THEN [el |-> <<"1","5">>, n |-> 2, field |-> "hour"]
    ELSE IF HasPrefix(l, <<"0","4">>) THEN [el |-> <<"0","4">>, n |-> 2, field |-> "min"]
    ELSE IF HasPrefix(l, <<"0","5">>) THEN [el |-> <<"0","5">>, n |-> 2, field |-> "sec"]
    ELSE IF HasPrefix(l, <<"Z","0","7",":","0","0">>) THEN [el |-> <<"Z","0","7",":","0","0">>, n |-> 0, field |-> "offset"]
    ELSE [el |-> <<>>, n |-> 0, field |-> ""]

RECURSIVE parseLayout(_, _, _)
parseLayout(l, s, f) ==
    IF l = <<>> THEN [f EXCEPT !.ok = (s = <<>>)]
    ELSE IF layoutElement(l).n > 0
    THEN IF leadingNum(s, layoutElement(l).n) < 0 THEN [f EXCEPT !.ok = FALSE]
         ELSE parseLayout(SubSeq(l, Len(layoutElement(l).el) + 1, Len(l)),
                          SubSeq(s, layoutElement(l).n + 1, Len(s)),
                          [f EXCEPT ![layoutElement(l).field] = leadingNum(s, layoutElement(l).n)])
    ELSE IF layoutElement(l).field = "offset"
    THEN IF s = <<"Z">> THEN f
         ELSE IF Len(s) = 6 /\ s[1] \in {"+", "-"} /\ s[4] = ":"
                 /\ leadingNum(SubSeq(s, 2, 3), 2) \in 0..23 /\ leadingNum(SubSeq(s, 5, 6), 2) \in 0..59
         THEN [f EXCEPT !.offset = (IF s[1] = "-" THEN -1 ELSE 1)
                                    * (DigitsVal(SubSeq(s, 2, 3)) * 3600 + DigitsVal(SubSeq(s, 5, 6)) * 60)]
         ELSE [f EXCEPT !.ok = FALSE]
    ELSE IF s # <<>> /\ Head(s) = Head(l) THEN parseLayout(Tail(l), Tail(s), f)
    ELSE [f EXCEPT !.ok = FALSE]

\* The end of time.Parse: the fields f collected from the text are range-checked and
\* the time is built in UTC
timeDate(f) ==
        IF ~f.ok \/ f.month \notin 1..12 \/ f.day < 1 \/ f.day > daysIn(f.month, f.year)
           \/ f.hour > 23 \/ f.min > 59 \/ f.sec > 59
        THEN [ok |-> FALSE, t |-> [day |-> 0, sec |-> 0, nsec |-> 0]]
        ELSE LET secs == f.hour * 3600 + f.min * 60 + f.sec - f.offset
             IN  [ok |-> TRUE,
                  t |-> [day |-> daysSinceBase(f.year, f.month, f.day) + (secs \div 86400),
                         sec |-> secs % 86400, nsec |-> 0]]

\* time.Parse(layout, s)
timeParse(layout, s) ==
    timeDate(parseLayout(layout, s, [ok |-> TRUE, year |-> 0, month |-> 1, day |-> 1,
                                     hour |-> 0, min |-> 0, sec |-> 0, offset |-> 0]))

\* 2^63 - 1 nanoseconds, the largest time.Duration, is Int64Days whole days and a
\* fraction of a day; 2^64 nanoseconds are WrapDays days, WrapSecs seconds and
\* WrapNanos nanoseconds
Int64Days == 106751

WrapDays == 213503

WrapSecs == 84873

WrapNanos == 709551616

\* base.Add(time.Duration(sec) * time.Second) with sec := int64(f * 86400.0), f being
\* the decimal v = m * 10^(-e).  The product is an int64 count of nanoseconds and
\* wraps modulo 2^64.  (A whole number of the model is below 320254 days in absolute
\* value, so that the product wraps at most once; a fraction of the model is a
\* multiple of 1/4 with a mantissa below 24000, whose float64 product is exact.)
serialTime(v) ==
    IF v.e > 0
    THEN LET a == IF v.m < 0 THEN 0 - v.m ELSE v.m
             t == (a * 86400) \div (10 ^ v.e)
             secs == IF v.m < 0 THEN 0 - t ELSE t
         IN  [day |-> secs \div 86400, sec |-> secs % 86400, nsec |-> 0]
    ELSE IF v.m > Int64Days
    THEN [day |-> v.m - WrapDays - 1, sec |-> 86400 - WrapSecs - 1, nsec |-> 1000000000 - WrapNanos]
    ELSE IF v.m < 0 - Int64Days
    THEN [day |-> v.m + WrapDays, sec |-> WrapSecs, nsec |-> WrapNanos]
    ELSE [day |-> v.m, sec |-> 0, nsec |-> 0]

commonLayouts == <<lDate, lDateSlash, lDateTime>>

defaultTimeLayouts == <<RFC3339, lDateTime, lDate, lDateSlash>>

\* The first layout of the list that parses s
RECURSIVE tryLayouts(_, _)
tryLayouts(ls, s) ==
    IF ls = <<>> THEN [ok |-> FALSE, t |-> [day |-> 0, sec |-> 0, nsec |-> 0]]
    ELSE IF timeParse(Head(ls), s).ok THEN timeParse(Head(ls), s)
    ELSE tryLayouts(Tail(ls), s)

parseAnyTimeOptimized(s, layout) ==
    LET p == tryLayouts((IF layout # <<>> THEN <<layout>> ELSE <<>>) \o commonLayouts \o defaultTimeLayouts, s)
        f == ParseFloat(s)
    IN  IF p.ok THEN [err |-> "", v |-> p.t]
        ELSE IF f.ok THEN [err |-> "", v |-> serialTime(f.v)]
        ELSE [err |-> "cannot parse time", v |-> [day |-> 0, sec |-> 0, nsec |-> 0]]

(***************************************************************************)
(* Value coercion layer.                                                   *)
(***************************************************************************)
IntKinds == {"Int", "Int8", "Int16", "Int32", "Int64"}

UintKinds == {"Uint", "Uint8", "Uint16", "Uint32", "Uint64"}

FloatKinds == {"Float32", "Float64"}

Bits(kind) ==
    CASE kind \in {"Int8", "Uint8"} -> 8
      [] kind \in {"Int16", "Uint16"} -> 16
      [] kind \in {"Int32", "Uint32"} -> 32
      [] OTHER -> 64

\* reflect.Value.SetInt: the value is stored in the field's width (two's complement);
\* a value of the model (below 2^31) is unchanged by a 32- or 64-bit field
SetInt(i, kind) ==
    IF Bits(kind) >= 32 THEN i
    ELSE LET w == 2 ^ Bits(kind)
             u == i % w
         IN  IF u >= w \div 2 THEN u - w ELSE u

\* reflect.Value.SetUint
SetUint(u, kind) == IF Bits(kind) >= 32 THEN u ELSE u % (2 ^ Bits(kind))

\* reflect.Zero of a field of the given kind
ZeroValue(kind) ==
    CASE kind = "String" -> <<>>
      [] kind = "Bool" -> FALSE
      [] kind \in FloatKinds -> [m |-> 0, e |-> 0]
      [] OTHER -> 0

cleanNumOptimized(s) == SelectSeq(s, LAMBDA c : c \notin {" ", "\t", "\n", "\r", ","})

BoolTrueTexts ==
    {<<"1">>, <<"t","r","u","e">>, <<"T","R","U","E">>, <<"T","r","u","e">>,
     <<"y","e","s">>, <<"Y","E","S">>, <<"Y","e","s">>}

BoolFalseTexts ==
    {<<"0">>, <<"f","a","l","s","e">>, <<"F","A","L","S","E">>, <<"F","a","l","s","e">>,
     <<"n","o">>, <<"N","O">>, <<"N","o">>}

\* The result of one coercion: err is "" for nil, else the cause; v is the value
\* stored in the field (meaningful only when err is "").
setFieldValueOptimizedDirect(raw, kind, layout) ==
    CASE kind = "String" -> [err |-> "", v |-> raw]
      [] kind = "Bool" ->
            IF raw \in BoolTrueTexts THEN [err |-> "", v |-> TRUE]
            ELSE IF raw \in BoolFalseTexts THEN [err |-> "", v |-> FALSE]
            ELSE LET b == ParseBool(ToLower(raw))
                 IN  IF b.ok THEN [err |-> "", v |-> b.v] ELSE [err |-> "ParseBool", v |-> FALSE]
      [] kind \in IntKinds ->
            LET i == ParseInt(cleanNumOptimized(raw))
            IN  IF i.ok THEN [err |-> "", v |-> SetInt(i.v, kind)] ELSE [err |-> "ParseInt", v |-> 0]
      [] kind \in UintKinds ->
            LET u == ParseUint(cleanNumOptimized(raw))
            IN  IF u.ok THEN [err |-> "", v |-> SetUint(u.v, kind)] ELSE [err |-> "ParseUint", v |-> 0]
      [] kind \in FloatKinds ->
            LET cleanRaw == IF Contains(raw, ",") THEN ReplaceAll(raw, ",", ".") ELSE raw
                fl == ParseFloat(cleanRaw)
            IN  IF fl.ok THEN [err |-> "", v |-> fl.v] ELSE [err |-> "ParseFloat", v |-> ZeroValue(kind)]
      \* reflect.Struct: the field type is time.Time (kind "Time" here), or another struct
      [] kind = "Time" -> parseAnyTimeOptimized(raw, layout)
      [] kind = "Struct" -> [err |-> "unsupported struct type", v |-> 0]
      [] OTHER -> [err |-> "unsupported kind", v |-> 0]

(***************************************************************************)
(* Column naming utility.                                                  *)
(***************************************************************************)
RECURSIVE colSum(_, _)
colSum(col, sum) ==
    IF col = <<>> THEN sum
    ELSE colSum(Tail(col), sum * 26 + (CHOOSE i \in 1..26 : Upper[i] = Head(col)))

colToIdx(c) ==
    LET col == ToUpper(TrimSpace(c))
    IN  IF col = <<>> THEN [idx |-> 0, ok |-> FALSE]
        ELSE IF \E i \in 1..Len(col) : ~IsUpper(col[i]) THEN [idx |-> 0, ok |-> FALSE]
        ELSE [idx |-> colSum(col, 0) - 1, ok |-> TRUE]

\* The loop of idxToCol without the "- 1" of its step (plain base 26)
RECURSIVE idxToColLoop_NoCarry(_, _)
idxToColLoop_NoCarry(idx, acc) ==
    IF idx > 0 THEN idxToColLoop_NoCarry(idx \div 26, <<Upper[(idx % 26) + 1]>> \o acc)
    ELSE IF acc = <<>> THEN <<"A">> ELSE acc

RECURSIVE idxToColLoop(_, _)
idxToColLoop(idx, acc) ==
    IF idx >= 0 THEN idxToColLoop((idx \div 26) - 1, <<Upper[(idx % 26) + 1]>> \o acc) ELSE acc

idxToCol(idx) == IF idx < 0 THEN <<>> ELSE idxToColLoop(idx, <<>>)

(***************************************************************************)
(* Errors.  A Go error value is modelled by what its message names: the    *)
(* kind of failure, the row number, the column letter, the header label    *)
(* and the cause.  A panic that nothing recovers is the error "panic".     *)
(***************************************************************************)
Err(kind, row, col, header, cause) ==
    [kind |-> kind, row |-> row, col |-> col, header |-> header, cause |-> cause]

NoErr == Err("nil", 0, <<>>, <<>>, "")

(***************************************************************************)
(* Tag parser.                                                             *)
(***************************************************************************)
ColPrefix == <<"c","o","l","=">>

LayoutPrefix == <<"l","a","y","o","u","t","=">>

RequiredWord == <<"r","e","q","u","i","r","e","d">>

\* The options loop keeping the first col= part when several occur
RECURSIVE parseTagOpts_FirstCol(_, _)
parseTagOpts_FirstCol(parts, ts) ==
    IF parts = <<>> THEN ts
    ELSE LET o == TrimSpace(Head(parts))
             ts1 == CASE o = RequiredWord -> [ts EXCEPT !.required = TRUE]
                      [] o # RequiredWord /\ HasPrefix(o, LayoutPrefix) ->
                            [ts EXCEPT !.layout = SubSeq(o, Len(LayoutPrefix) + 1, Len(o))]
                      [] o # RequiredWord /\ ~HasPrefix(o, LayoutPrefix) /\ HasPrefix(ToLower(o), ColPrefix)
                         /\ ts.fixedCol = <<>> ->
                            [ts EXCEPT !.fixedCol = TrimSpace(SubSeq(o, 5, Len(o)))]
                      [] OTHER -> ts
         IN  parseTagOpts_FirstCol(Tail(parts), ts1)

RECURSIVE parseTagOpts(_, _)
parseTagOpts(parts, ts) ==
    IF parts = <<>> THEN ts
    ELSE LET o == TrimSpace(Head(parts))
             ts1 == CASE o = RequiredWord -> [ts EXCEPT !.required = TRUE]
                      [] o # RequiredWord /\ HasPrefix(o, LayoutPrefix) ->
                            [ts EXCEPT !.layout = SubSeq(o, Len(LayoutPrefix) + 1, Len(o))]
                      [] o # RequiredWord /\ ~HasPrefix(o, LayoutPrefix) /\ HasPrefix(ToLower(o), ColPrefix) ->
                            [ts EXCEPT !.fixedCol = TrimSpace(SubSeq(o, 5, Len(o)))]
                      [] OTHER -> ts
         IN  parseTagOpts(Tail(parts), ts1)

parseTag(s) ==
    LET parts == Split(s, ",")
        p == TrimSpace(parts[1])
        ts0 == [header |-> <<>>, fixedCol |-> <<>>, required |-> FALSE, layout |-> <<>>]
        ts1 == IF HasPrefix(ToLower(p), ColPrefix)
               THEN [ts0 EXCEPT !.fixedCol = TrimSpace(SubSeq(p, 5, Len(p)))]
               ELSE IF p # <<>> THEN [ts0 EXCEPT !.header = p]
               ELSE ts0
    IN  parseTagOpts(Tail(parts), ts1)

(***************************************************************************)
(* Binding compiler.  A record type is [Kind, Fields]; a field is          *)
(* [Name, Anonymous, Tag, Kind, IsPointer, Fields], Fields being the       *)
(* fields of the field's own type when that is a struct.  Field and        *)
(* column indices are 0-based as in the code.                              *)
(***************************************************************************)
\* colIdxHeader of Read: trimmed label -> index, a later duplicate overwriting
HeaderIndex(header) ==
    [l \in {TrimSpace(header[i]) : i \in 1..Len(header)} |->
        (CHOOSE i \in 1..Len(header) :
            /\ TrimSpace(header[i]) = l
            /\ \A j \in (i + 1)..Len(header) : TrimSpace(header[j]) # l) - 1]

\* buildRulesFrom leaving out, without an error, a field whose header is not in the index
RECURSIVE buildRulesFrom_SkipUnknown(_, _, _, _)
buildRulesFrom_SkipUnknown(fields, i, colIndexByHeader, acc) ==
    IF i >= Len(fields) THEN [rules |-> acc, err |-> NoErr]
    ELSE LET sf == fields[i + 1]
         IN  IF sf.Anonymous
             THEN IF sf.Kind # "Struct" THEN [rules |-> <<>>, err |-> Err("panic", 0, <<>>, sf.Name, "NumField")]
                  ELSE LET sub == buildRulesFrom_SkipUnknown(sf.Fields, 0, colIndexByHeader, <<>>)
                       IN  IF sub.err # NoErr THEN [rules |-> <<>>, err |-> sub.err]
                           ELSE buildRulesFrom_SkipUnknown(fields, i + 1, colIndexByHeader, acc \o sub.rules)
             ELSE IF sf.Tag = <<>> \/ sf.Tag = <<"-">>
             THEN buildRulesFrom_SkipUnknown(fields, i + 1, colIndexByHeader, acc)
             ELSE LET spec == parseTag(sf.Tag)
                      fixed == colToIdx(spec.fixedCol)
                  IN  IF spec.fixedCol # <<>> /\ ~fixed.ok
                      THEN [rules |-> <<>>, err |-> Err("SchemaError", 0, spec.fixedCol, sf.Name, "invalid column letter")]
                      ELSE IF spec.fixedCol = <<>> /\ spec.header # <<>> /\ spec.header \notin DOMAIN colIndexByHeader
                      THEN buildRulesFrom_SkipUnknown(fields, i + 1, colIndexByHeader, acc)
                      ELSE IF spec.fixedCol = <<>> /\ spec.header = <<>>
                      THEN [rules |-> <<>>, err |-> Err("SchemaError", 0, <<>>, sf.Name, "must specify header or col")]
                      ELSE buildRulesFrom_SkipUnknown(fields, i + 1, colIndexByHeader,
                              Append(acc, [fieldIdx |-> i,
                                           colIdx |-> IF spec.fixedCol # <<>> THEN fixed.idx
                                                      ELSE colIndexByHeader[spec.header],
                                           header |-> spec.header,
                                           required |-> spec.required,
                                           layout |-> spec.layout,
                                           isPointer |-> sf.IsPointer,
                                           kindCache |-> sf.Kind]))

RECURSIVE buildRulesFrom(_, _, _, _)
buildRulesFrom(fields, i, colIndexByHeader, acc) ==
    IF i >= Len(fields) THEN [rules |-> acc, err |-> NoErr]
    ELSE LET sf == fields[i + 1]
         IN  IF sf.Anonymous
             THEN IF sf.Kind # "Struct" THEN [rules |-> <<>>, err |-> Err("panic", 0, <<>>, sf.Name, "NumField")]
                  ELSE LET sub == buildRulesFrom(sf.Fields, 0, colIndexByHeader, <<>>)
                       IN  IF sub.err # NoErr THEN [rules |-> <<>>, err |-> sub.err]
                           \* the loop over sub assigns to a copy: the rules are spliced in unchanged
                           ELSE buildRulesFrom(fields, i + 1, colIndexByHeader, acc \o sub.rules)
             ELSE IF sf.Tag = <<>> \/ sf.Tag = <<"-">>
             THEN buildRulesFrom(fields, i + 1, colIndexByHeader, acc)
             ELSE LET spec == parseTag(sf.Tag)
                      fixed == colToIdx(spec.fixedCol)
                  IN  IF spec.fixedCol # <<>> /\ ~fixed.ok
                      THEN [rules |-> <<>>, err |-> Err("SchemaError", 0, spec.fixedCol, sf.Name, "invalid column letter")]
                      ELSE IF spec.fixedCol = <<>> /\ spec.header # <<>> /\ spec.header \notin DOMAIN colIndexByHeader
                      THEN [rules |-> <<>>, err |-> Err("SchemaError", 0, <<>>, spec.header, "header not found")]
                      ELSE IF spec.fixedCol = <<>> /\ spec.header = <<>>
                      THEN [rules |-> <<>>, err |-> Err("SchemaError", 0, <<>>, sf.Name, "must specify header or col")]
                      ELSE buildRulesFrom(fields, i + 1, colIndexByHeader,
                              Append(acc, [fieldIdx |-> i,
                                           colIdx |-> IF spec.fixedCol # <<>> THEN fixed.idx
                                                      ELSE colIndexByHeader[spec.header],
                                           header |-> spec.header,
                                           required |-> spec.required,
                                           layout |-> spec.layout,
                                           isPointer |-> sf.IsPointer,
                                           kindCache |-> sf.Kind]))

\* rt.NumField() panics when rt is not a struct type
buildRules(t, colIndexByHeader) ==
    IF t.Kind # "Struct" THEN [rules |-> <<>>, err |-> Err("panic", 0, <<>>, <<>>, "NumField")]
    ELSE buildRulesFrom(t.Fields, 0, colIndexByHeader, <<>>)

(***************************************************************************)
(* Record instances.  A record is the sequence of its field values.        *)
(***************************************************************************)
NilPointer == [nil |-> TRUE]

RECURSIVE ZeroRecord(_)
ZeroRecord(fields) ==
    [i \in 1..Len(fields) |->
        IF fields[i].IsPointer THEN NilPointer
        ELSE IF fields[i].Kind = "Struct" THEN ZeroRecord(fields[i].Fields)
        ELSE ZeroValue(fields[i].Kind)]

\* reflect.Value.CanSet of a struct field: the field is exported
CanSet(sf) == sf.Name # <<>> /\ IsUpper(sf.Name[1])

KindClass(kind) ==
    CASE kind \in IntKinds -> "int"
      [] kind \in UintKinds -> "uint"
      [] kind \in FloatKinds -> "float"
      [] OTHER -> kind

\* The store of the built value r into the field sf of the instance (fv.Set,
\* fv.SetInt, ...): a store into a field of another kind panics inside
\* setFieldValueOptimized, which recovers it into an error.
fieldSet(sf, rule, r) ==
        IF r.err # "" THEN r
        ELSE IF rule.isPointer
        THEN IF sf.IsPointer /\ sf.Kind = rule.kindCache
             THEN [err |-> "", v |-> [ptr |-> r.v]]
             ELSE [err |-> "panic in field value setting", v |-> r.v]
        ELSE IF sf.IsPointer \/ KindClass(sf.Kind) # KindClass(rule.kindCache)
        THEN [err |-> "panic in field value setting", v |-> r.v]
        ELSE IF KindClass(sf.Kind) = "int" THEN [err |-> "", v |-> SetInt(r.v, sf.Kind)]
        ELSE IF KindClass(sf.Kind) = "uint" THEN [err |-> "", v |-> SetUint(r.v, sf.Kind)]
        ELSE r

\* setFieldValueOptimized on the field sf of the instance: the value is built for the
\* rule's cached kind and stored in the field
setFieldValueOptimized(sf, raw, rule) ==
    fieldSet(sf, rule, setFieldValueOptimizedDirect(raw, rule.kindCache, rule.layout))

\* The rule loop of getRows over one row: the instance filled so far, or the error
RECURSIVE applyRules(_, _, _, _, _)
applyRules(rs, i, cols, rowNum, rv) ==
    IF i > Len(rs) THEN [err |-> NoErr, rv |-> rv]
    ELSE LET rule == rs[i]
             cell == IF rule.colIdx < Len(cols) THEN TrimSpace(cols[rule.colIdx + 1]) ELSE <<>>
         IN  IF rule.required /\ cell = <<>>
             THEN [err |-> Err("RequiredFieldMissing", rowNum, idxToCol(rule.colIdx), rule.header, ""),
                   rv |-> rv]
             ELSE IF cell = <<>> THEN applyRules(rs, i + 1, cols, rowNum, rv)
             ELSE IF rule.fieldIdx >= Len(rt.Fields)
             THEN [err |-> Err("panic", rowNum, idxToCol(rule.colIdx), rule.header, "Field index out of range"),
                   rv |-> rv]
             ELSE LET sf == rt.Fields[rule.fieldIdx + 1]
                      r == setFieldValueOptimized(sf, cell, rule)
                  IN  IF ~CanSet(sf) THEN applyRules(rs, i + 1, cols, rowNum, rv)
                      ELSE IF r.err # ""
                      THEN [err |-> Err("ParseError", rowNum, idxToCol(rule.colIdx), rule.header, r.err),
                            rv |-> rv]
                      ELSE applyRules(rs, i + 1, cols, rowNum, [rv EXCEPT ![rule.fieldIdx + 1] = r.v])

(***************************************************************************)
(* Row cursor (excelize.Rows): the cursor is the number of Next() calls    *)
(* made on it; Next() reports whether that row exists, Columns() is the    *)
(* row's cell texts.                                                       *)
(***************************************************************************)
NoCursor == -1

HasRow(pos) == pos >= 1 /\ pos <= Len(file)

Columns(pos) == IF HasRow(pos) THEN file[pos] ELSE <<>>

\* The cell a rule reads in sheet row p: trimmed, empty when the row is shorter
RuleCell(rule, p) ==
    IF rule.colIdx < Len(Columns(p)) THEN TrimSpace(Columns(p)[rule.colIdx + 1]) ELSE <<>>

(***************************************************************************)
(* getRows on the receiver e = [rows, IsNext, rules, opt, pool] and the    *)
(* slice o:                                                                *)
(* the row loop, then the IsNext assignment.  The result is the receiver   *)
(* and the slice after the call, and the returned error.  The capacity     *)
(* pre-allocation at its head copies the slice and keeps its contents.     *)
(***************************************************************************)
\* e.instancePool.Get(): the instance put back last, or a new one from reflect.New(rt)
\* (a pool that has dropped its instance builds a new one, as the empty pool does)
getInstance(pool) == IF pool = <<>> THEN ZeroRecord(rt.Fields) ELSE pool[1]

\* The instance taken from the pool used as it is
resetInstance_Stale(rv) == rv

\* rv.Set(reflect.Zero(e.rt))
resetInstance(rv) == ZeroRecord(rt.Fields)

\* finishPage releasing the compiled rules when the page is complete
finishPage_DropRules(e, o) ==
    [e |-> [e EXCEPT !.rows = e.rows + 1, !.IsNext = HasRow(e.rows + 1), !.rules = <<>>], out |-> o, err |-> NoErr]

\* e.IsNext = e.rows.Next(); return e.rows.Error()
finishPage(e, o) ==
    [e |-> [e EXCEPT !.rows = e.rows + 1, !.IsNext = HasRow(e.rows + 1)], out |-> o, err |-> NoErr]

RECURSIVE rowLoop(_, _, _)
\* The end of one pass of the row loop, d being the result of its rule loop: the
\* instance is put back filled, on the error paths too (a panic puts nothing back);
\* the record is appended and the limit tested
rowEnd(e1, nd, o, d) ==
    LET e2 == [e1 EXCEPT !.pool = IF d.err.kind = "panic" THEN <<>> ELSE <<d.rv>>]
    IN  IF d.err # NoErr THEN [e |-> e2, out |-> o, err |-> d.err]
        ELSE IF e1.opt.Limit > 0 /\ nd >= e1.opt.Limit THEN finishPage(e2, Append(o, d.rv))
        ELSE rowLoop(e2, nd, Append(o, d.rv))

\* rowLoop appending the partly filled instance of the failing row before it returns
RECURSIVE rowLoop_AppendFailed(_, _, _)
rowLoop_AppendFailed(e, numberData, o) ==
    LET e1 == [e EXCEPT !.rows = e.rows + 1]
    IN  IF ~HasRow(e1.rows) THEN finishPage(e1, o)
        ELSE LET nd == numberData + 1
                 rowNum == nd + e.opt.DataStartRow - 1
                 d == applyRules(e.rules, 1, Columns(e1.rows), rowNum, resetInstance(getInstance(e.pool)))
                 e2 == [e1 EXCEPT !.pool = IF d.err.kind = "panic" THEN <<>> ELSE <<d.rv>>]
             IN  IF d.err # NoErr THEN [e |-> e2, out |-> Append(o, d.rv), err |-> d.err]
                 ELSE IF e.opt.Limit > 0 /\ nd >= e.opt.Limit THEN finishPage(e2, Append(o, d.rv))
                 ELSE rowLoop_AppendFailed(e2, nd, Append(o, d.rv))

rowLoop(e, numberData, o) ==
    LET e1 == [e EXCEPT !.rows = e.rows + 1]
    IN  IF ~HasRow(e1.rows) THEN finishPage(e1, o)
        ELSE LET nd == numberData + 1
                 rowNum == nd + e.opt.DataStartRow - 1
             IN  rowEnd(e1, nd, o,
                        applyRules(e.rules, 1, Columns(e1.rows), rowNum, resetInstance(getInstance(e.pool))))

getRows(e, o) == rowLoop(e, 0, o)

(***************************************************************************)
(* The session: construction, Read, Next.                                  *)
(***************************************************************************)
Receiver == [rows |-> rows, IsNext |-> IsNext, rules |-> rules, opt |-> opt, pool |-> instancePool]

\* The state a call starts from, kept with the call's result
Before == [out |-> out, rows |-> rows, IsNext |-> IsNext, rules |-> rules]

\* The option defaults of Read
readOpt(o) ==
    [HeaderRow |-> IF o.HeaderRow > 0 THEN o.HeaderRow ELSE 1,
     DataStartRow |-> IF o.DataStartRow > 0 THEN o.DataStartRow ELSE 2,
     Limit |-> IF o.Limit > 0 THEN o.Limit ELSE 0]

\* Read advancing the cursor one time too few before it reads the header labels
read_ShortAdvance(e, o, callerOpt) ==
    LET e0 == [e EXCEPT !.opt = readOpt(callerOpt)]
        h == e0.opt.HeaderRow - 1
    IN  IF Len(file) < h
        THEN [e |-> [e0 EXCEPT !.rows = Len(file) + 1], out |-> o, err |-> Err("EmptySheet", 0, <<>>, <<>>, "")]
        ELSE LET b == buildRules(rt, HeaderIndex(Columns(h)))
                 e1 == [e0 EXCEPT !.rows = h]
             IN  IF b.err.kind = "panic" THEN [e |-> e1, out |-> o, err |-> b.err]
                 ELSE IF b.err # NoErr THEN [e |-> [e1 EXCEPT !.rules = <<>>], out |-> o, err |-> b.err]
                 ELSE getRows([e1 EXCEPT !.rules = b.rules], o)

\* Read on the receiver e: the cursor is opened and advanced to the header row,
\* the rules are compiled from the header labels, and the first page is read.
\* (Every constructor sets e.rt, so the test of the target's kind under
\* "if e.rt == nil" is never made.)
read(e, o, callerOpt) ==
    LET e0 == [e EXCEPT !.opt = readOpt(callerOpt)]
        h == e0.opt.HeaderRow
    IN  IF Len(file) < h
        THEN [e |-> [e0 EXCEPT !.rows = Len(file) + 1], out |-> o, err |-> Err("EmptySheet", 0, <<>>, <<>>, "")]
        ELSE LET b == buildRules(rt, HeaderIndex(file[h]))
                 e1 == [e0 EXCEPT !.rows = h]
             IN  IF b.err.kind = "panic" THEN [e |-> e1, out |-> o, err |-> b.err]
                 ELSE IF b.err # NoErr THEN [e |-> [e1 EXCEPT !.rules = <<>>], out |-> o, err |-> b.err]
                 ELSE getRows([e1 EXCEPT !.rules = b.rules], o)

\* The Next of the session with its guard on IsNext left out
next_NoGuard(e, o) == getRows(e, o)

\* Next on the receiver e
next(e, o) ==
    IF e.IsNext THEN getRows(e, o)
    ELSE [e |-> e, out |-> o, err |-> Err("NoMoreRows", 0, <<>>, <<>>, "")]

\* Read, in a session that makes at most maxReads Read calls.  Every Read of the
\* model finds its file and its sheet, so it opens a cursor with e.file.Rows and
\* stores it in e.rows, whatever it returns afterwards.
ReadCall(maxReads) ==
    /\ reads < maxReads
    /\ \E r \in {read(Receiver, out, callOpt)} :
           /\ rows' = r.e.rows
           /\ IsNext' = r.e.IsNext
           /\ rules' = r.e.rules
           /\ opt' = r.e.opt
           /\ out' = r.out
           /\ instancePool' = r.e.pool
           /\ last' = [op |-> "Read", err |-> r.err, before |-> Before]
           /\ pages' = IF r.err = NoErr THEN <<Len(r.out) - Len(out)>> ELSE <<>>
    /\ reads' = reads + 1
    /\ opened' = opened + 1
    /\ UNCHANGED <<file, callOpt, rt, released, coerceVars, facadeVars, colVars, poolVars>>

Read == ReadCall(MaxReads)

Next ==
    /\ \E r \in {next(Receiver, out)} :
           /\ rows' = r.e.rows
           /\ IsNext' = r.e.IsNext
           /\ rules' = r.e.rules
           /\ opt' = r.e.opt
           /\ out' = r.out
           /\ instancePool' = r.e.pool
           /\ last' = [op |-> "Next", err |-> r.err, before |-> Before]
           /\ pages' = IF r.err = NoErr THEN Append(pages, Len(r.out) - Len(out)) ELSE pages
    /\ UNCHANGED <<file, callOpt, rt, reads, coerceVars, facadeVars, cursorVars, colVars, poolVars>>

(***************************************************************************)
(* Inputs: the record type, the sheets and the options of the sessions     *)
(* that are explored.                                                      *)
(***************************************************************************)
sID == <<"I","D">>

sName == <<"N","a","m","e">>

sAmount == <<"A","m","o","u","n","t">>

sAlice == <<"A","l","i","c","e">>

sBob == <<"B","o","b">>

\* struct { ID int `excel:"ID"`; Name string `excel:"Name,required"`; Amount float64 `excel:"Amount"` }
RowType ==
    [Kind |-> "Struct",
     Fields |-> <<
        [Name |-> sID, Anonymous |-> FALSE, Tag |-> sID, Kind |-> "Int", IsPointer |-> FALSE, Fields |-> <<>>],
        [Name |-> sName, Anonymous |-> FALSE, Tag |-> sName \o <<",">> \o RequiredWord,
         Kind |-> "String", IsPointer |-> FALSE, Fields |-> <<>>],
        [Name |-> sAmount, Anonymous |-> FALSE, Tag |-> sAmount, Kind |-> "Float64", IsPointer |-> FALSE,
         Fields |-> <<>>] >>]

RecordTypes == {RowType}

HeaderRowCells == <<sID, sName, sAmount>>

TitleRow == << <<"R","e","p","o","r","t">> >>

\* A row between the header row and the data start row: blank, or a units row
GapRows == { <<>>, << <<"0">>, <<"-">> >> }

\* The data rows: "good" decodes; "comma" has an amount with a thousands comma and
\* a decimal point; "blank" has no Name cell (a whitespace cell, then nothing);
\* "none" has no cell at all
Templates == {"good", "comma", "blank"}

DataRow(t, i) ==
    CASE t = "good" -> << <<DigitChars[i + 1]>>, sBob, <<"9","0","0">> >>
      [] t = "none" -> <<>>
      [] t = "comma" -> << <<DigitChars[i + 1]>>, sAlice, <<"1",",","2","3","4",".","5","0">> >>
      [] OTHER -> << <<DigitChars[i + 1]>>, <<" ">> >>

\* The header row and data start row options of the explored sessions (0 = unset)
Layouts == { <<0, 0>>, <<2, 3>>, <<1, 3>> }

Sheet(h, d, gap, kinds) ==
    [i \in 1..(h - 1) |-> TitleRow] \o <<HeaderRowCells>> \o [i \in 1..(d - h - 1) |-> gap]
        \o [i \in 1..Len(kinds) |-> DataRow(kinds[i], i)]

ZeroOpt == [HeaderRow |-> 0, DataStartRow |-> 0, Limit |-> 0]

Pending == [err |-> "pending", v |-> 0]

CoerceIdle ==
    /\ cRaw = <<>>
    /\ cKind = "String"
    /\ cRes = Pending

\* No worker-pool getRows call is made
PoolIdle ==
    /\ jobs = [buf |-> <<>>, closed |-> FALSE]
    /\ results = <<>>
    /\ wk = <<>>
    /\ prod = [pc |-> "idle", i |-> 0, jobCount |-> 0, got |-> 0, numberData |-> 0, ret |-> NoErr]

\* NewExcelFile(): an empty Sheet1, nothing saved, nothing set
NoFile == [exists |-> FALSE, cells |-> <<>>]

FacadeIdle ==
    /\ book = <<>>
    /\ disk = NoFile
    /\ book2 = NoFile
    /\ written = [live |-> <<>>, saved |-> <<>>, reopened |-> <<>>, calls |-> 0]
    /\ table = [made |-> FALSE, headers |-> <<>>, data |-> <<>>, err |-> ""]

\* No row cursor has been opened
CursorIdle ==
    /\ opened = 0
    /\ released = {}

\* No call of the column utility is made
ColIdle ==
    /\ colArg = [kind |-> "none", v |-> 0]
    /\ colRes = <<>>

Init ==
    /\ \E lay \in Layouts, gap \in GapRows, n \in 0..MaxRows, lim \in 0..MaxLimit :
         \E kinds \in [1..n -> Templates] :
            /\ callOpt = [HeaderRow |-> lay[1], DataStartRow |-> lay[2], Limit |-> lim]
            /\ file = Sheet(readOpt(callOpt).HeaderRow, readOpt(callOpt).DataStartRow, gap, kinds)
    /\ rt \in RecordTypes
    /\ opt = ZeroOpt
    /\ rows = NoCursor
    /\ IsNext = FALSE
    /\ rules = <<>>
    /\ out = <<>>
    /\ reads = 0
    /\ last = [op |-> "none", err |-> NoErr, before |-> [out |-> <<>>, rows |-> NoCursor, IsNext |-> FALSE, rules |-> <<>>]]
    /\ pages = <<>>
    /\ instancePool = <<>>
    /\ CoerceIdle
    /\ FacadeIdle
    /\ CursorIdle
    /\ ColIdle
    /\ PoolIdle

NextStep == Read \/ Next

Spec == Init /\ [][NextStep]_vars

(***************************************************************************)
(* Sessions over other record types and over sheets that end before the    *)
(* header row.                                                             *)
(***************************************************************************)
sTotal == <<"T","o","t","a","l">>

sBase == <<"B","a","s","e">>

\* The fields ID int `excel:"ID"`; Name string `excel:"Name"`; Amount float64 `excel:"Amount"`
LooseFields ==
    [i \in 1..3 |-> [RowType.Fields[i] EXCEPT !.Tag = RowType.Fields[i].Name]]

\* struct { ID; Name; Amount as above; Note string; Skip int `excel:"-"` }
LooseType ==
    [Kind |-> "Struct",
     Fields |-> LooseFields \o <<
        [Name |-> <<"N","o","t","e">>, Anonymous |-> FALSE, Tag |-> <<>>, Kind |-> "String",
         IsPointer |-> FALSE, Fields |-> <<>>],
        [Name |-> <<"S","k","i","p">>, Anonymous |-> FALSE, Tag |-> <<"-">>, Kind |-> "Int",
         IsPointer |-> FALSE, Fields |-> <<>>] >>]

\* struct { Total int; Base }, Base being struct { ID; Name; Amount as above }
EmbType ==
    [Kind |-> "Struct",
     Fields |-> <<
        [Name |-> sTotal, Anonymous |-> FALSE, Tag |-> <<>>, Kind |-> "Int", IsPointer |-> FALSE,
         Fields |-> <<>>],
        [Name |-> sBase, Anonymous |-> TRUE, Tag |-> <<>>, Kind |-> "Struct", IsPointer |-> FALSE,
         Fields |-> LooseFields] >>]

\* T = int
IntType == [Kind |-> "Int", Fields |-> <<>>]

ShapeTypes == {RowType, LooseType, EmbType, IntType}

ShapeLayouts == { <<0, 0>>, <<2, 3>> }

\* As Init, over ShapeTypes and ShapeLayouts; a short sheet ends before its header row
InitShapes ==
    /\ \E lay \in ShapeLayouts, n \in 0..MaxRows, lim \in 0..MaxLimit, short \in BOOLEAN :
         \E kinds \in [1..n -> Templates] :
            /\ callOpt = [HeaderRow |-> lay[1], DataStartRow |-> lay[2], Limit |-> lim]
            /\ file = IF short THEN [i \in 1..(readOpt(callOpt).HeaderRow - 1) |-> TitleRow]
                      ELSE Sheet(readOpt(callOpt).HeaderRow, readOpt(callOpt).DataStartRow, <<>>, kinds)
    /\ rt \in ShapeTypes
    /\ opt = ZeroOpt
    /\ rows = NoCursor
    /\ IsNext = FALSE
    /\ rules = <<>>
    /\ out = <<>>
    /\ reads = 0
    /\ last = [op |-> "none", err |-> NoErr, before |-> [out |-> <<>>, rows |-> NoCursor, IsNext |-> FALSE, rules |-> <<>>]]
    /\ pages = <<>>
    /\ instancePool = <<>>
    /\ CoerceIdle
    /\ FacadeIdle
    /\ CursorIdle
    /\ ColIdle
    /\ PoolIdle

SpecShapes == InitShapes /\ [][NextStep]_vars

(***************************************************************************)
(* The worker-pool revision of getRows (src/unnamed/part_000): the calling *)
(* goroutine sends one job per binding of a row to the jobs channel, then  *)
(* receives as many results; the workers receive jobs and send results.    *)
(* Both channels have a buffer of 2 * workers; a send to a full buffer and *)
(* a receive from an empty one wait.  The session is taken after Read has  *)
(* compiled the rules, at the call of getRows.                             *)
(***************************************************************************)
\* struct { ID int `excel:"ID,required"`; Name string `excel:"Name,required"`; Amount float64 `excel:"Amount"` }
PoolType ==
    [Kind |-> "Struct",
     Fields |-> <<[RowType.Fields[1] EXCEPT !.Tag = sID \o <<",">> \o RequiredWord],
                  RowType.Fields[2], RowType.Fields[3]>>]

PoolTemplates == {"good", "blank", "none"}

\* The number of fields of the wide record type: with one worker, one more job per
\* row than the two channel buffers and the worker hold together
WideFields == 6

\* struct { F1 string `excel:"ID"`; ...; F6 string `excel:"ID"` }: every field makes
\* a job on a row that has a first cell
WideType ==
    [Kind |-> "Struct",
     Fields |-> [k \in 1..WideFields |->
                    [Name |-> <<"F", DigitChars[k + 1]>>, Anonymous |-> FALSE, Tag |-> sID,
                     Kind |-> "String", IsPointer |-> FALSE, Fields |-> <<>>]]]

\* The records the caller's slice holds before the call
MaxPrior == 1

\* cap(jobs), cap(results)
ChanCap == 2 * Len(wk)

\* The first rule from index i on that makes a job for the row the cursor is on:
\* a rule with an empty cell that is not required makes none
RECURSIVE NextJob(_)
NextJob(i) ==
    IF i > Len(rules) THEN i
    ELSE IF RuleCell(rules[i], rows) = <<>> /\ ~rules[i].required THEN NextJob(i + 1)
    ELSE i

\* What a worker sends for a job.  buildRules of this revision sets neither fastPath
\* nor converter, so the fast path is not taken: the result is the required-field
\* error, or nil.
jobResult(job) ==
    IF job.rule.required /\ job.value = <<>>
    THEN Err("RequiredFieldMissing", job.rowNum, idxToCol(job.colIdx), job.rule.header, "")
    ELSE NoErr

InitWorkers ==
    /\ \E n \in 1..MaxPoolRows, lim \in 0..1 :
         \E kinds \in [1..n -> PoolTemplates] :
            /\ callOpt = [HeaderRow |-> 0, DataStartRow |-> 0, Limit |-> lim]
            /\ file = Sheet(1, 2, <<>>, kinds)
    /\ rt \in {PoolType, WideType}
    /\ opt = readOpt(callOpt)
    /\ rows = opt.HeaderRow
    /\ IsNext = FALSE
    /\ rules = buildRules(rt, HeaderIndex(file[opt.HeaderRow])).rules
    /\ \E prior \in 0..MaxPrior : out = [k \in 1..prior |-> ZeroRecord(rt.Fields)]
    /\ reads = 1
    /\ last = [op |-> "none", err |-> NoErr, before |-> Before]
    /\ pages = <<>>
    /\ instancePool = <<>>
    /\ CoerceIdle
    /\ FacadeIdle
    /\ opened = 1
    /\ released = {}
    /\ ColIdle
    /\ jobs = [buf |-> <<>>, closed |-> FALSE]
    /\ results = <<>>
    /\ wk = <<>>
    /\ prod = [pc |-> "start", i |-> 0, jobCount |-> 0, got |-> 0, numberData |-> 0, ret |-> NoErr]

poolFrame == <<file, callOpt, rt, opt, rules, reads, last, pages, instancePool, coerceVars, facadeVars, cursorVars, colVars>>

\* *out = make([]T, 0, initialCap); the channels are made and the workers started
StartWorkers ==
    /\ prod.pc = "start"
    /\ out' = <<>>
    /\ \E w \in 1..MaxWorkers : wk' = [k \in 1..w |-> [pc |-> "recv", res |-> NoErr]]
    /\ prod' = [prod EXCEPT !.pc = "next"]
    /\ UNCHANGED <<jobs, results, rows, IsNext, poolFrame>>

\* for e.rows.Next() { numberData++; ... jobCount := 0
NextRow ==
    /\ prod.pc = "next"
    /\ rows' = rows + 1
    /\ prod' = IF HasRow(rows + 1)
               THEN [prod EXCEPT !.pc = "send", !.numberData = prod.numberData + 1, !.i = 1, !.jobCount = 0]
               ELSE [prod EXCEPT !.pc = "close"]
    /\ UNCHANGED <<jobs, results, wk, out, IsNext, poolFrame>>

\* The rule loop up to its next send on jobs, or to its end
SendJob ==
    /\ prod.pc = "send"
    /\ \E k \in {NextJob(prod.i)} :
          IF k > Len(rules)
          THEN /\ prod' = [prod EXCEPT !.pc = "collect", !.got = 0]
               /\ UNCHANGED jobs
          ELSE /\ Len(jobs.buf) < ChanCap
               /\ jobs' = [jobs EXCEPT !.buf = Append(jobs.buf,
                              [rule |-> rules[k], value |-> RuleCell(rules[k], rows),
                               rowNum |-> prod.numberData + opt.DataStartRow - 1,
                               colIdx |-> rules[k].colIdx])]
               /\ prod' = [prod EXCEPT !.i = k + 1, !.jobCount = prod.jobCount + 1]
    /\ UNCHANGED <<results, wk, out, rows, IsNext, poolFrame>>

\* if err := <-results; err != nil { return err }
CollectResult ==
    /\ prod.pc = "collect"
    /\ prod.got < prod.jobCount
    /\ results # <<>>
    /\ results' = Tail(results)
    /\ prod' = IF Head(results) # NoErr
               THEN [prod EXCEPT !.pc = "returned", !.ret = Head(results)]
               ELSE [prod EXCEPT !.got = prod.got + 1]
    /\ UNCHANGED <<jobs, wk, out, rows, IsNext, poolFrame>>

\* *out = append(*out, rv.Interface().(T)): rv is the new instance, which no worker has set
AppendRecord ==
    /\ prod.pc = "collect"
    /\ prod.got = prod.jobCount
    /\ out' = Append(out, ZeroRecord(rt.Fields))
    /\ prod' = [prod EXCEPT !.pc = IF opt.Limit > 0 /\ prod.numberData >= opt.Limit THEN "close" ELSE "next"]
    /\ UNCHANGED <<jobs, results, wk, rows, IsNext, poolFrame>>

\* close(jobs)
CloseJobs ==
    /\ prod.pc = "close"
    /\ jobs' = [jobs EXCEPT !.closed = TRUE]
    /\ prod' = [prod EXCEPT !.pc = "wait"]
    /\ UNCHANGED <<results, wk, out, rows, IsNext, poolFrame>>

\* wg.Wait(); e.IsNext = e.rows.Next(); return e.rows.Error()
WaitWorkers ==
    /\ prod.pc = "wait"
    /\ \A w \in 1..Len(wk) : wk[w].pc = "done"
    /\ rows' = rows + 1
    /\ IsNext' = HasRow(rows + 1)
    /\ prod' = [prod EXCEPT !.pc = "returned", !.ret = NoErr]
    /\ UNCHANGED <<jobs, results, wk, out, poolFrame>>

\* for job := range jobs: a job is received and processed
WorkerRecv ==
    \E w \in 1..Len(wk) :
        /\ wk[w].pc = "recv"
        /\ jobs.buf # <<>>
        /\ jobs' = [jobs EXCEPT !.buf = Tail(jobs.buf)]
        /\ wk' = [wk EXCEPT ![w] = [pc |-> "send", res |-> jobResult(Head(jobs.buf))]]
        /\ UNCHANGED <<results, prod, out, rows, IsNext, poolFrame>>

\* results <- ...
WorkerSend ==
    \E w \in 1..Len(wk) :
        /\ wk[w].pc = "send"
        /\ Len(results) < ChanCap
        /\ results' = Append(results, wk[w].res)
        /\ wk' = [wk EXCEPT ![w] = [pc |-> "recv", res |-> NoErr]]
        /\ UNCHANGED <<jobs, prod, out, rows, IsNext, poolFrame>>

\* The range loop ends when jobs is closed and empty: wg.Done()
WorkerExit ==
    \E w \in 1..Len(wk) :
        /\ wk[w].pc = "recv"
        /\ jobs.buf = <<>>
        /\ jobs.closed
        /\ wk' = [wk EXCEPT ![w] = [pc |-> "done", res |-> NoErr]]
        /\ UNCHANGED <<jobs, results, prod, out, rows, IsNext, poolFrame>>

NextWorkers ==
    \/ StartWorkers
    \/ NextRow
    \/ SendJob
    \/ CollectResult
    \/ AppendRecord
    \/ CloseJobs
    \/ WaitWorkers
    \/ WorkerRecv
    \/ WorkerSend
    \/ WorkerExit

SpecWorkers == InitWorkers /\ [][NextWorkers]_vars

\* The steps of the calling goroutine, and those of the worker goroutines
ProducerStep ==
    StartWorkers \/ NextRow \/ SendJob \/ CollectResult \/ AppendRecord \/ CloseJobs \/ WaitWorkers

WorkerStep == WorkerRecv \/ WorkerSend \/ WorkerExit

\* The Go scheduler lets a goroutine that can take a step take one
SpecWorkersFair == SpecWorkers /\ WF_vars(ProducerStep) /\ WF_vars(WorkerStep)

(***************************************************************************)
(* Compiler harness: the rules of a record type of two tagged fields are   *)
(* compiled against a header row, as the statement                         *)
(* e.rules, err = buildRules(e.rt, colIdxHeader) of Read does.             *)
(***************************************************************************)
CompileTags ==
    {<<"I","D">>, <<"N","a","m","e",",","r","e","q","u","i","r","e","d">>, <<"M","i","s","s","i","n","g">>,
     <<"M","i","s","s","i","n","g",",","c","o","l","=","B">>, <<"I","D",",","c","o","l","=","C">>, <<"c","o","l","=","B">>,
     <<"c","o","l","=","7">>, <<"-">>, <<>>,
     <<"I","D",",","c","o","l","=","B",","," ","C","O","L","=","c">>, <<"I","D",",","c","o","l","=","C",",","c","o","l","=">>,
     <<",","r","e","q","u","i","r","e","d">>}

\* Header rows: the plain one, one with a duplicate and a padded label, an empty one
CompileHeaders ==
    {HeaderRowCells, <<sName, <<" ","I","D"," ">>, sID>>, <<>>}

\* A string field F<i> with the given tag
TaggedField(i, tag) ==
    [Name |-> <<"F", DigitChars[i + 1]>>, Anonymous |-> FALSE, Tag |-> tag, Kind |-> "String",
     IsPointer |-> FALSE, Fields |-> <<>>]

\* The record type struct { F1; F2 }, or struct { Base } with Base = struct { F1; F2 }
CompileTypes ==
    {[Kind |-> "Struct", Fields |-> <<TaggedField(1, t1), TaggedField(2, t2)>>] :
        t1 \in CompileTags, t2 \in CompileTags} \cup
    {[Kind |-> "Struct",
      Fields |-> <<[Name |-> sBase, Anonymous |-> TRUE, Tag |-> <<>>, Kind |-> "Struct", IsPointer |-> FALSE,
                    Fields |-> <<TaggedField(1, t1), TaggedField(2, t2)>>]>>] :
        t1 \in CompileTags, t2 \in CompileTags}

InitCompile ==
    /\ rt \in CompileTypes
    /\ \E hdr \in CompileHeaders : file = <<hdr>>
    /\ callOpt = ZeroOpt
    /\ opt = ZeroOpt
    /\ rows = NoCursor
    /\ IsNext = FALSE
    /\ rules = <<>>
    /\ out = <<>>
    /\ reads = 0
    /\ last = [op |-> "none", err |-> NoErr, before |-> [out |-> <<>>, rows |-> NoCursor, IsNext |-> FALSE, rules |-> <<>>]]
    /\ pages = <<>>
    /\ instancePool = <<>>
    /\ CoerceIdle
    /\ FacadeIdle
    /\ CursorIdle
    /\ ColIdle
    /\ PoolIdle

Compile ==
    /\ last.op = "none"
    /\ \E b \in {buildRules(rt, HeaderIndex(file[1]))} :
           /\ rules' = b.rules
           /\ last' = [op |-> "buildRules", err |-> b.err, before |-> Before]
    /\ UNCHANGED <<file, callOpt, rt, opt, rows, IsNext, out, reads, pages, instancePool, coerceVars, facadeVars, cursorVars, colVars, poolVars>>

SpecCompile == InitCompile /\ [][Compile]_vars

(***************************************************************************)
(* Coercion harness: one cell text is coerced into one field kind.         *)
(***************************************************************************)
\* Every upper/lower-case spelling of a word
CaseVariants(w) ==
    {s \in [1..Len(w) -> {w[i] : i \in 1..Len(w)} \cup {ToUpperCh(w[i]) : i \in 1..Len(w)}
                         \cup {ToLowerCh(w[i]) : i \in 1..Len(w)}] :
        \A i \in 1..Len(w) : s[i] \in {ToLowerCh(w[i]), ToUpperCh(w[i])}}

BoolWords ==
    {<<"1">>, <<"0">>, <<"t","r","u","e">>, <<"f","a","l","s","e">>, <<"y","e","s">>, <<"n","o">>,
     <<"m","a","y","b","e">>, <<"t">>, <<"f">>, <<"y">>, <<"n">>, <<"o","n">>, <<"2">>}

BoolInputs == UNION {CaseVariants(w) : w \in BoolWords}

\* Integer texts around the limits of the 8- and 16-bit kinds
IntInputs ==
    {<<"0">>, <<"-","1">>, <<"+","5">>, <<"1","2","7">>,
     <<"1","2","8">>, <<"-","1","2","8">>, <<"-","1","2","9">>, <<"2","5","5">>,
     <<"2","5","6">>, <<"3","0","0">>, <<"1",",","0","0","0">>, <<"3","2","7","6","7">>,
     <<"3","2","7","6","8">>, <<"-","3","2","7","6","8">>, <<"-","3","2","7","6","9">>, <<"6","5","5","3","5">>,
     <<"6","5","5","3","6">>, <<"7","0","0","0","0">>, <<"1","2","a">>}

IntTargets == {"Int8", "Int16", "Int32", "Int64", "Uint8", "Uint16", "Uint32", "Uint64"}

\* Whole-number serials, each with the YYYY-MM-DD text of the calendar date that many
\* days after 1899-12-30
SerialDates ==
    {[serial |-> <<"0">>, date |-> <<"1","8","9","9","-","1","2","-","3","0">>],
     [serial |-> <<"1">>, date |-> <<"1","8","9","9","-","1","2","-","3","1">>],
     [serial |-> <<"6","1">>, date |-> <<"1","9","0","0","-","0","3","-","0","1">>],
     [serial |-> <<"3","6","5","2","6">>, date |-> <<"2","0","0","0","-","0","1","-","0","1">>],
     [serial |-> <<"4","5","1","2","3">>, date |-> <<"2","0","2","3","-","0","7","-","1","6">>],
     [serial |-> <<"1","0","6","7","5","1">>, date |-> <<"2","1","9","2","-","0","4","-","0","8">>],
     [serial |-> <<"1","0","6","7","5","2">>, date |-> <<"2","1","9","2","-","0","4","-","0","9">>],
     [serial |-> <<"2","0","0","0","0","0">>, date |-> <<"2","4","4","7","-","0","7","-","3","0">>]}

TimeInputs ==
    {p.serial : p \in SerialDates} \cup {p.date : p \in SerialDates} \cup
    {<<"1",".","5">>,
     <<"1","0","0",".","2","5">>,
     <<"4","5","1","2","3",".","0">>,
     <<"2","0","2","3","-","0","2","-","3","0">>,
     <<"1","6","/","0","7","/","2","0","2","3">>,
     <<"2","0","2","3","-","0","7","-","1","6"," ","1","0",":","3","0",":","0","0">>,
     <<"2","0","2","3","-","0","7","-","1","6","T","1","0",":","3","0",":","0","0","Z">>,
     <<"2","0","2","3","-","0","7","-","1","6","T","1","0",":","3","0",":","0","0","+","0","7",":","0","0">>,
     <<"J","u","l","y"," ","1","6">>,
     <<"-","1">>}

InitCoerce ==
    /\ \/ cKind = "Bool" /\ cRaw \in BoolInputs
       \/ cKind \in IntTargets /\ cRaw \in IntInputs
       \/ cKind = "Time" /\ cRaw \in TimeInputs
    /\ cRes = Pending
    /\ file = <<>>
    /\ callOpt = ZeroOpt
    /\ rt = RowType
    /\ opt = ZeroOpt
    /\ rows = NoCursor
    /\ IsNext = FALSE
    /\ rules = <<>>
    /\ out = <<>>
    /\ reads = 0
    /\ last = [op |-> "none", err |-> NoErr, before |-> [out |-> <<>>, rows |-> NoCursor, IsNext |-> FALSE, rules |-> <<>>]]
    /\ pages = <<>>
    /\ instancePool = <<>>
    /\ PoolIdle
    /\ FacadeIdle
    /\ CursorIdle
    /\ ColIdle

Coerce ==
    /\ cRes.err = "pending"
    /\ cRes' = setFieldValueOptimizedDirect(cRaw, cKind, <<>>)
    /\ UNCHANGED <<cRaw, cKind, sessionVars, poolVars, facadeVars, cursorVars, colVars>>

SpecCoerce == InitCoerce /\ [][Coerce]_vars

(***************************************************************************)
(* The File facade (src/main.go) over one worksheet.  A workbook is the    *)
(* function from the names of its cells to their stored texts; a value is  *)
(* [k, v]: a string (k = "s") or an int (k = "i").  The sheet argument of  *)
(* the methods is always the one sheet and is left out.                    *)
(***************************************************************************)
\* strconv.Itoa
RECURSIVE Itoa(_)
Itoa(n) ==
    IF n < 0 THEN <<"-">> \o Itoa(0 - n)
    ELSE IF n < 10 THEN <<DigitChars[n + 1]>>
    ELSE Itoa(n \div 10) \o <<DigitChars[(n % 10) + 1]>>

\* excelize.CoordinatesToCellName(col, row): "" (with an error) for a coordinate
\* below 1, else the column letters and the row number
CoordinatesToCellName(col, row) ==
    IF col < 1 \/ row < 1 THEN <<>> ELSE idxToCol(col - 1) \o Itoa(row)

\* getCellName reading the column as the row
getCellName_FirstRow(row, col) == CoordinatesToCellName(col, 1)

\* getCellName drops the error of CoordinatesToCellName
getCellName(row, col) == CoordinatesToCellName(col, row)

\* The text excelize stores for a value and returns for its cell
cellText(value) == IF value.k = "i" THEN Itoa(value.v) ELSE value.v

\* f.SetCellValue(sheet, row, col, value) on the workbook b: [b, err]
SetCellValue(b, row, col, value) ==
    IF getCellName(row, col) = <<>> THEN [b |-> b, err |-> "failed to set cell value"]
    ELSE [b |-> [n \in DOMAIN b \cup {getCellName(row, col)} |->
                    IF n = getCellName(row, col) THEN cellText(value) ELSE b[n]],
          err |-> ""]

\* f.GetCellValue(sheet, row, col): [v, err]; a cell that was never set reads as ""
GetCellValue(b, row, col) ==
    IF getCellName(row, col) = <<>> THEN [v |-> <<>>, err |-> "failed to get cell value"]
    ELSE [v |-> IF getCellName(row, col) \in DOMAIN b THEN b[getCellName(row, col)] ELSE <<>>, err |-> ""]

\* f.SetRowValues(sheet, row, values), from the value at index col (0-based) on
RECURSIVE SetRowValues(_, _, _, _)
SetRowValues(b, row, values, col) ==
    IF col >= Len(values) THEN [b |-> b, err |-> ""]
    ELSE IF SetCellValue(b, row, col + 1, values[col + 1]).err # "" THEN SetCellValue(b, row, col + 1, values[col + 1])
    ELSE SetRowValues(SetCellValue(b, row, col + 1, values[col + 1]).b, row, values, col + 1)

\* f.SetHeaders(sheet, headers)
SetHeaders(b, headers) ==
    SetRowValues(b, 1, [i \in 1..Len(headers) |-> [k |-> "s", v |-> headers[i]]], 0)

\* f.WriteData(sheet, startRow, data), from the row at index i (0-based) on
RECURSIVE WriteData(_, _, _, _)
WriteData(b, startRow, data, i) ==
    IF i >= Len(data) THEN [b |-> b, err |-> ""]
    ELSE IF SetRowValues(b, startRow + i, data[i + 1], 0).err # "" THEN SetRowValues(b, startRow + i, data[i + 1], 0)
    ELSE WriteData(SetRowValues(b, startRow + i, data[i + 1], 0).b, startRow, data, i + 1)

\* f.CreateSimpleTable(sheet, headers, data); the column widths it sets last are no
\* cell contents
CreateSimpleTable(b, headers, data) ==
    IF SetHeaders(b, headers).err # "" THEN SetHeaders(b, headers)
    ELSE WriteData(SetHeaders(b, headers).b, 2, data, 0)

\* The rows and columns of the sheet the calls of the model can reach
SheetRows == 4

SheetCols == 3

\* excelize GetRows: the rows up to the last one that has a cell with a value, each
\* row up to its last cell with a value (the blank cells at the tail of a row and
\* the blank rows at the tail of the sheet are skipped), blank cells before it as ""
RowCells(b, r) ==
    [c \in 1..(CHOOSE m \in 0..SheetCols :
                  /\ m > 0 => GetCellValue(b, r, m).v # <<>>
                  /\ \A c2 \in (m + 1)..SheetCols : GetCellValue(b, r, c2).v = <<>>)
        |-> GetCellValue(b, r, c).v]

GetRows(b) ==
    [r \in 1..(CHOOSE m \in 0..SheetRows :
                  /\ m > 0 => RowCells(b, m) # <<>>
                  /\ \A r2 \in (m + 1)..SheetRows : RowCells(b, r2) = <<>>)
        |-> RowCells(b, r)]

\* f.GetRowValues(sheet, row)
GetRowValues(b, row) ==
    IF row > Len(GetRows(b)) \/ row < 1 THEN <<>> ELSE GetRows(b)[row]

\* f.GetHeaders(sheet)
GetHeaders(b) == GetRowValues(b, 1)

\* f.ReadDataWithHeaders(sheet) over f.ReadData(sheet): [headers, data]
ReadDataWithHeaders(b) ==
    IF Len(GetRows(b)) = 0 THEN [headers |-> <<>>, data |-> <<>>]
    ELSE [headers |-> GetRows(b)[1], data |-> Tail(GetRows(b))]

\* The map ConvertToMap builds for one row: a later header of the same name
\* overwrites the earlier one
RowMap(headers, row) ==
    [h \in {headers[i] : i \in 1..Len(headers)} |->
        IF (CHOOSE i \in 1..Len(headers) : headers[i] = h /\ \A j \in (i + 1)..Len(headers) : headers[j] # h)
              <= Len(row)
        THEN row[CHOOSE i \in 1..Len(headers) : headers[i] = h /\ \A j \in (i + 1)..Len(headers) : headers[j] # h]
        ELSE <<>>]

\* f.ConvertToMap(sheet)
ConvertToMap(b) ==
    [k \in 1..Len(ReadDataWithHeaders(b).data) |->
        RowMap(ReadDataWithHeaders(b).headers, ReadDataWithHeaders(b).data[k])]

(***************************************************************************)
(* Sessions of the File facade on cells: SetCellValue calls on a new file, *)
(* SaveAs, and OpenExcelFile of the file saved.                            *)
(***************************************************************************)
MaxWrites == 3

MaxCoord == 2

\* The column numbers tried: 0, which is no column, and columns A and B
CellCols == {0, 1, 2}

sTest == <<"T","e","s","t">>

\* The values set: two strings, the empty one included, and an int
CellValues == {[k |-> "s", v |-> sTest], [k |-> "s", v |-> <<>>], [k |-> "i", v |-> 30]}

\* The decoder session is not used
SessionIdle ==
    /\ file = <<>>
    /\ callOpt = ZeroOpt
    /\ rt = RowType
    /\ opt = ZeroOpt
    /\ rows = NoCursor
    /\ IsNext = FALSE
    /\ rules = <<>>
    /\ out = <<>>
    /\ reads = 0
    /\ last = [op |-> "none", err |-> NoErr, before |-> [out |-> <<>>, rows |-> NoCursor, IsNext |-> FALSE, rules |-> <<>>]]
    /\ pages = <<>>
    /\ instancePool = <<>>

InitFacade ==
    /\ FacadeIdle
    /\ SessionIdle
    /\ CoerceIdle
    /\ CursorIdle
    /\ ColIdle
    /\ PoolIdle

facadeFrame == <<sessionVars, coerceVars, cursorVars, colVars, poolVars>>

\* f.SetCellValue(sheet, row, col, value); a coordinate 0 makes the call fail
SetCell ==
    /\ written.calls < MaxWrites
    /\ \E row \in 0..MaxCoord, col \in CellCols, value \in CellValues :
          \E r \in {SetCellValue(book, row, col, value)} :
             /\ book' = r.b
             /\ written' = [written EXCEPT
                               !.calls = written.calls + 1,
                               !.live = IF r.err # "" THEN written.live
                                        ELSE [rc \in DOMAIN written.live \cup {<<row, col>>} |->
                                                 IF rc = <<row, col>> THEN cellText(value) ELSE written.live[rc]]]
    /\ UNCHANGED <<disk, book2, table, facadeFrame>>

\* f.SaveAs(filename): the file carries every cell of the sheet with its text
SaveAs ==
    /\ disk' = [exists |-> TRUE, cells |-> book]
    /\ written' = [written EXCEPT !.saved = written.live]
    /\ UNCHANGED <<book, book2, table, facadeFrame>>

\* OpenExcelFile(filename) of the file saved (it fails when there is none)
OpenExcelFile ==
    /\ disk.exists
    /\ book2' = disk
    /\ written' = [written EXCEPT !.reopened = written.saved]
    /\ UNCHANGED <<book, disk, table, facadeFrame>>

SpecCells == InitFacade /\ [][SetCell \/ SaveAs \/ OpenExcelFile]_vars

(***************************************************************************)
(* CreateSimpleTable on the empty sheet of a new file.                     *)
(***************************************************************************)
sAge == <<"A","g","e">>

sCity == <<"C","i","t","y">>

\* Header lists: none, one to three names, one with an empty name at its end, one
\* with a name twice
TableHeaders ==
    { <<>>, <<sName>>, <<sName, sAge>>, <<sName, sAge, sCity>>, <<sName, <<>>>>, <<sName, sName>> }

\* Data rows: a full row, a short row, a row of no values, a row of an empty string
TableRows ==
    { <<[k |-> "s", v |-> sAlice], [k |-> "i", v |-> 30]>>, <<[k |-> "s", v |-> sBob]>>, <<>>,
      <<[k |-> "s", v |-> <<>>]>> }

MaxTableRows == 2

TableData == UNION {[1..n -> TableRows] : n \in 0..MaxTableRows}

\* f.CreateSimpleTable(sheet, headers, data) on the new file
MakeTable ==
    /\ ~table.made
    /\ \E headers \in TableHeaders, data \in TableData :
          \E r \in {CreateSimpleTable(book, headers, data)} :
             /\ book' = r.b
             /\ table' = [made |-> TRUE, headers |-> headers, data |-> data, err |-> r.err]
    /\ UNCHANGED <<disk, book2, written, facadeFrame>>

SpecTable == InitFacade /\ [][MakeTable]_vars

(***************************************************************************)
(* The lifecycle of the row cursor: sessions that call Read more than      *)
(* once, Next and CloseRow in any order.                                   *)
(***************************************************************************)
MaxLifeRows == 2

InitLifecycle ==
    /\ \E lay \in ShapeLayouts, n \in 0..MaxLifeRows, lim \in 0..1, short \in BOOLEAN :
         \E kinds \in [1..n -> {"good", "blank"}] :
            /\ callOpt = [HeaderRow |-> lay[1], DataStartRow |-> lay[2], Limit |-> lim]
            /\ file = IF short THEN [i \in 1..(readOpt(callOpt).HeaderRow - 1) |-> TitleRow]
                      ELSE Sheet(readOpt(callOpt).HeaderRow, readOpt(callOpt).DataStartRow, <<>>, kinds)
    /\ rt = RowType
    /\ opt = ZeroOpt
    /\ rows = NoCursor
    /\ IsNext = FALSE
    /\ rules = <<>>
    /\ out = <<>>
    /\ reads = 0
    /\ last = [op |-> "none", err |-> NoErr, before |-> [out |-> <<>>, rows |-> NoCursor, IsNext |-> FALSE, rules |-> <<>>]]
    /\ pages = <<>>
    /\ instancePool = <<>>
    /\ CoerceIdle
    /\ FacadeIdle
    /\ CursorIdle
    /\ ColIdle
    /\ PoolIdle

\* Read in a session that may call it once more
ReadRepeated == ReadCall(MaxReads + 1)

\* CloseRow: e.rows.Close().  Before the first Read e.rows is nil and the call
\* panics; else the cursor e.rows refers to is released (closing it again changes
\* nothing).  The position of a released cursor is kept.
CloseRow ==
    /\ released' = IF opened = 0 THEN released ELSE released \cup {opened}
    /\ last' = [op |-> "CloseRow",
                err |-> IF opened = 0 THEN Err("panic", 0, <<>>, <<>>, "nil pointer dereference") ELSE NoErr,
                before |-> Before]
    /\ UNCHANGED <<file, callOpt, rt, opt, rows, IsNext, rules, out, reads, pages, instancePool, opened,
                   coerceVars, facadeVars, colVars, poolVars>>

SpecLifecycle == InitLifecycle /\ [][ReadRepeated \/ Next \/ CloseRow]_vars

(***************************************************************************)
(* The column utility harness: idxToCol is called on an index and colToIdx *)
(* on the label it returned, or colToIdx is called on a text.              *)
(***************************************************************************)
MaxIndex == 730

\* Texts given to colToIdx: empty, blank, letters of both cases, texts with a
\* non-letter inside, and labels with white space around them
ColTexts ==
    { <<>>, <<" ">>, <<"a">>, <<"A">>, <<"z">>, <<"a","a">>, <<"A","b">>, <<"Z","Z">>,
      <<"A","1">>, <<"1">>, <<"-">>, <<"A"," ","B">>, <<"A","-">>, <<"$","A">>,
      <<" ","A">>, <<"A"," ">>, <<" ","b","a","\t">> }

InitColumns ==
    /\ colArg \in [kind : {"idx"}, v : 0..MaxIndex] \cup [kind : {"text"}, v : ColTexts]
    /\ colRes = <<>>
    /\ file = <<>>
    /\ callOpt = ZeroOpt
    /\ rt = RowType
    /\ opt = ZeroOpt
    /\ rows = NoCursor
    /\ IsNext = FALSE
    /\ rules = <<>>
    /\ out = <<>>
    /\ reads = 0
    /\ last = [op |-> "none", err |-> NoErr, before |-> [out |-> <<>>, rows |-> NoCursor, IsNext |-> FALSE, rules |-> <<>>]]
    /\ pages = <<>>
    /\ instancePool = <<>>
    /\ CoerceIdle
    /\ FacadeIdle
    /\ CursorIdle
    /\ PoolIdle

\* idxToCol(colArg)
IdxToCol ==
    /\ colArg.kind = "idx"
    /\ colRes = <<>>
    /\ colRes' = <<idxToCol(colArg.v)>>
    /\ UNCHANGED <<colArg, sessionVars, coerceVars, facadeVars, cursorVars, poolVars>>

\* colToIdx on the text given, or on the label idxToCol returned
ColToIdx ==
    /\ \/ colArg.kind = "text" /\ colRes = <<>> /\ colRes' = <<colToIdx(colArg.v)>>
       \/ colArg.kind = "idx" /\ Len(colRes) = 1 /\ colRes' = Append(colRes, colToIdx(colRes[1]))
    /\ UNCHANGED <<colArg, sessionVars, coerceVars, facadeVars, cursorVars, poolVars>>

SpecColumns == InitColumns /\ [][IdxToCol \/ ColToIdx]_vars

(***************************************************************************)
(* Properties of the Read/Next session.                                    *)
(***************************************************************************)
Min(a, b) == IF a < b THEN a ELSE b

\* The number of data rows of the sheet, after Read has set the options
NumData == Len(file) - opt.DataStartRow + 1

\* The data rows start right after the header row
NoGap == opt.DataStartRow = opt.HeaderRow + 1

\* Every data row of the sheet is a "good" row
CleanSheet == \A i \in 1..NumData : file[opt.DataStartRow + i - 1] = DataRow("good", i)

\* The record a "good" row with data index i stands for
GoodRecord(i) == <<i, sBob, [m |-> 900, e |-> 0]>>

\* The page sizes of a sheet of n data rows read with page limit l >= 1
ExpectedPages(l, n) ==
    [k \in 1..((n + l - 1) \div l) |-> Min(l, n - (k - 1) * l)]

\* C1: for a page limit L >= 1 and N >= 1 data rows, Read and the Next calls made
\* while IsNext is true yield pages of L records and a last page of the remaining
\* 1..L records; IsNext is true after every page but the last; Next after the last
\* page fails with NoMoreRows.
C1_Pagination ==
    (reads = 1 /\ opt.Limit >= 1 /\ NumData >= 1 /\ NoGap /\ CleanSheet) =>
        /\ last.err = NoErr =>
              LET E == ExpectedPages(opt.Limit, NumData)
              IN  /\ Len(pages) <= Len(E)
                  /\ pages = SubSeq(E, 1, Len(pages))
                  /\ IsNext = (Len(pages) < Len(E))
        /\ (last.op = "Next" /\ ~last.before.IsNext) => last.err.kind = "NoMoreRows"

\* C2: when IsNext has become false after Read and the Next calls that followed,
\* with no row-level error, the output is the sequence of all data rows in sheet
\* order, each decoded once.
C2_AllRowsOnce ==
    (reads = 1 /\ NoGap /\ CleanSheet /\ last.err = NoErr /\ ~IsNext) =>
        out = [i \in 1..NumData |-> GoodRecord(i)]

\* C3: after a successful Read or Next, IsNext is true iff a data row has not been
\* delivered yet, and a Next made while IsNext was true has appended a record.
C3_IsNextIffRowsLeft ==
    (reads = 1 /\ NoGap /\ CleanSheet /\ last.err = NoErr) =>
        /\ IsNext <=> (Len(out) < NumData)
        /\ last.op = "Next" => Len(out) > Len(last.before.out)

\* C4: Next called while IsNext is false fails with NoMoreRows and leaves the output
\* slice, the cursor, the rules and IsNext as they were.
C4_NextWhenExhausted ==
    (last.op = "Next" /\ ~last.before.IsNext) =>
        /\ last.err.kind = "NoMoreRows"
        /\ out = last.before.out
        /\ rows = last.before.rows
        /\ rules = last.before.rules
        /\ IsNext = last.before.IsNext

\* C4 witness: Next was called after the last page of a session that delivered records
C4_Witness ==
    /\ last.op = "Next"
    /\ last.err.kind = "NoMoreRows"
    /\ reads = 1
    /\ Len(out) > 0

\* C5: with dataStartRow d > headerRow + 1, the rows between the header row and row d
\* are not decoded: the first record of Read's page comes from sheet row d.
C5_SkipToDataStart ==
    (last.op = "Read" /\ opt.DataStartRow > opt.HeaderRow + 1 /\ NumData >= 1
        /\ file[opt.DataStartRow] = DataRow("good", 1)) =>
        /\ Len(out) >= 1
        /\ out[1] = GoodRecord(1)

\* C6: a RequiredFieldMissing error names the 1-based physical sheet row of the
\* offending row (the row the cursor is on) and the letter of the rule's column,
\* on the first page and on every continuation page (stated here for the sheets
\* whose data rows start right after the header row).
C6_RequiredRowAndColumn ==
    (last.err.kind = "RequiredFieldMissing" /\ NoGap) =>
        /\ last.err.row = rows
        /\ last.err.col = <<"B">>

\* The decoding of sheet row p by the compiled rules
Decode(p) == applyRules(rules, 1, Columns(p), 0, ZeroRecord(rt.Fields))

\* The cursor position the row loop of the last call started from
LoopStart == IF last.op = "Read" THEN opt.HeaderRow ELSE last.before.rows

\* C7: a row-level RequiredFieldMissing or ParseError ends the call at that row: the
\* records added to the output are those of the rows decoded before it in this call,
\* and none for the failing row or a later one.
C7_ErrorEndsPage ==
    (last.err.kind \in {"RequiredFieldMissing", "ParseError"}) =>
        /\ rows > LoopStart
        /\ Decode(rows).err # NoErr
        /\ \A p \in (LoopStart + 1)..(rows - 1) : Decode(p).err = NoErr
        /\ out = last.before.out \o [k \in 1..(rows - LoopStart - 1) |-> Decode(LoopStart + k).rv]

\* C7 witness: a Next call failed on a row after it had decoded an earlier row of its page
C7_Witness ==
    /\ last.op = "Next"
    /\ last.err.kind = "ParseError"
    /\ Len(out) = Len(last.before.out) + 1

\* C8: once a Read or Next call has returned an error, a later Next call fails and
\* delivers no record.
C8_FailedIsTerminal ==
    [][(last.op \in {"Read", "Next"} /\ last.err # NoErr /\ last'.op = "Next") =>
            (last'.err # NoErr /\ out' = out)]_vars

\* The sheet of the round trip: header ID, Name, Amount; rows 1, Alice, 1,234.50 and 2, Bob, 900
RoundTripSheet == Sheet(1, 2, <<>>, <<"comma", "good">>)

\* C9: Read of the round-trip sheet returns no error and the records
\* {1, Alice, 1234.50} and {2, Bob, 900.0}.
C9_RoundTrip ==
    (last.op = "Read" /\ file = RoundTripSheet /\ opt.Limit = 0) =>
        /\ last.err = NoErr
        /\ out = << <<1, sAlice, [m |-> 12345, e |-> 1]>>, <<2, sBob, [m |-> 900, e |-> 0]>> >>

\* C13: with no page limit (0 or unset), Read alone delivers every data row of the
\* sheet in order in one page and leaves IsNext false, and a Next that follows fails
\* with NoMoreRows.
C13_UnlimitedSinglePage ==
    (reads = 1 /\ opt.Limit = 0 /\ CleanSheet) =>
        /\ last.op = "Read" =>
              /\ last.err = NoErr
              /\ out = [i \in 1..NumData |-> GoodRecord(i)]
              /\ ~IsNext
        /\ last.op = "Next" => last.err.kind = "NoMoreRows"

\* C14: a Next call leaves the compiled rules as they were, and they are the rules
\* (field, column index, header label, required flag, layout, in order) that Read
\* compiled from the header row.
C14_RulesStable ==
    (last.op = "Next" /\ reads >= 1 /\ Len(file) >= opt.HeaderRow) =>
        LET b == buildRules(rt, HeaderIndex(file[opt.HeaderRow]))
        IN  b.err = NoErr => (rules = last.before.rules /\ rules = b.rules)

\* C14 witness: the third page of a session came from a Next call, the rules are compiled
C14_Witness ==
    /\ last.op = "Next"
    /\ last.err = NoErr
    /\ Len(pages) >= 3
    /\ Len(rules) = 3

\* C15: Read on a session whose record type is not a struct fails with InvalidTarget
\* (it does not crash), compiles no rules and decodes no row.
C15_InvalidTarget ==
    (last.op = "Read" /\ rt.Kind # "Struct" /\ Len(file) >= opt.HeaderRow) =>
        /\ last.err.kind = "InvalidTarget"
        /\ rules = last.before.rules
        /\ out = last.before.out

\* C16: Read with header row h reads the header labels from sheet row h, the cursor
\* having advanced h times; on a sheet of fewer than h rows it fails with EmptySheet,
\* appends no record and leaves IsNext false.
C16_HeaderAdvance ==
    (last.op = "Read" /\ rt.Kind = "Struct") =>
        IF Len(file) < opt.HeaderRow
        THEN /\ last.err.kind = "EmptySheet"
             /\ out = last.before.out
             /\ ~IsNext
        ELSE LET b == buildRules(rt, HeaderIndex(file[opt.HeaderRow]))
             IN  /\ last.err.kind # "EmptySheet"
                 /\ rules = b.rules
                 /\ b.err = NoErr => last.err.kind # "SchemaError"

\* C16 witness: Read with header row 2 failed on a sheet of one row
C16_Witness ==
    /\ last.op = "Read"
    /\ last.err.kind = "EmptySheet"
    /\ opt.HeaderRow = 2
    /\ Len(file) = 1

C19_EmbeddedFields ==
    (rt = EmbType /\ last.op = "Read" /\ Len(file) >= opt.HeaderRow /\ CleanSheet /\ NumData >= 1) =>
        /\ last.err = NoErr
        /\ out[1] = <<0, GoodRecord(1)>>

(***************************************************************************)
(* Properties of the worker-pool revision.                                 *)
(***************************************************************************)
\* What the synchronous getRows returns for the same session
SyncReturn ==
    getRows([rows |-> opt.HeaderRow, IsNext |-> FALSE, rules |-> rules, opt |-> opt, pool |-> <<>>], <<>>)

\* The rules whose binding fails on sheet row p: a required cell is empty, or the
\* cell's text does not coerce
FailingRules(p) ==
    {i \in 1..Len(rules) :
        IF RuleCell(rules[i], p) = <<>> THEN rules[i].required
        ELSE setFieldValueOptimizedDirect(RuleCell(rules[i], p), rules[i].kindCache, rules[i].layout).err # ""}

\* C20: when several bindings fail in the first failing row, the worker-pool getRows
\* returns, under every interleaving of its goroutines, the error the synchronous
\* getRows returns: that of the first failing rule, in rule order, of that row.
C20_SameFirstError ==
    (prod.pc = "returned" /\ SyncReturn.err # NoErr
        /\ Cardinality(FailingRules(SyncReturn.e.rows)) >= 2) =>
        prod.ret = SyncReturn.err

(***************************************************************************)
(* Properties of the binding compiler.                                     *)
(***************************************************************************)
\* The tagged fields of the compiled record type, those of an embedded struct included
CompiledFields == IF rt.Fields[1].Anonymous THEN rt.Fields[1].Fields ELSE rt.Fields

\* C17 as stated: compiling fails with SchemaError and yields no rules whenever a
\* field that is not skipped (its tag is neither empty nor "-") has a tag with a
\* header name that is no key of the header index.
C17_UnknownHeaderAlways ==
    (last.op = "buildRules") =>
        ((\E j \in 1..Len(CompiledFields) :
            /\ CompiledFields[j].Tag \notin {<<>>, <<"-">>}
            /\ parseTag(CompiledFields[j].Tag).header # <<>>
            /\ parseTag(CompiledFields[j].Tag).header \notin DOMAIN HeaderIndex(file[1]))
         => (last.err.kind = "SchemaError" /\ rules = <<>>))

\* C17, amended: compiling fails with SchemaError and yields no rules whenever a field
\* that is not skipped has a tag with no fixed column and with a header name that is
\* no key of the header index.
C17_UnknownHeader ==
    (last.op = "buildRules") =>
        ((\E j \in 1..Len(CompiledFields) :
            /\ CompiledFields[j].Tag \notin {<<>>, <<"-">>}
            /\ parseTag(CompiledFields[j].Tag).fixedCol = <<>>
            /\ parseTag(CompiledFields[j].Tag).header # <<>>
            /\ parseTag(CompiledFields[j].Tag).header \notin DOMAIN HeaderIndex(file[1]))
         => (last.err.kind = "SchemaError" /\ rules = <<>>))

\* C17 witness: the first field resolves, the second names a header the row lacks
C17_Witness ==
    /\ last.op = "buildRules"
    /\ CompiledFields[1].Tag = sID
    /\ sID \in DOMAIN HeaderIndex(file[1])
    /\ last.err.kind = "SchemaError"
    /\ last.err.cause = "header not found"
    /\ rules = <<>>

\* The parts of a tag after position 0 that are col= parts
ColParts(tag) ==
    {i \in 2..Len(Split(tag, ",")) : HasPrefix(ToLower(TrimSpace(Split(tag, ",")[i])), ColPrefix)}

\* The text after "col=" in the last col= part of the tag
LastColLabel(tag) ==
    LET o == TrimSpace(Split(tag, ",")[CHOOSE i \in ColParts(tag) : \A j \in ColParts(tag) : j <= i])
    IN  TrimSpace(SubSeq(o, 5, Len(o)))

\* The tag names a header in position 0 and a column in a later part
HeaderThenCol(tag) ==
    /\ tag \notin {<<>>, <<"-">>}
    /\ TrimSpace(Split(tag, ",")[1]) # <<>>
    /\ ~HasPrefix(ToLower(TrimSpace(Split(tag, ",")[1])), ColPrefix)
    /\ ColParts(tag) # {}
    /\ colToIdx(LastColLabel(tag)).ok

BoolTrueWords == {<<"1">>, <<"t","r","u","e">>, <<"y","e","s">>}

BoolFalseWords == {<<"0">>, <<"f","a","l","s","e">>, <<"n","o">>}

\* C10: a non-empty text coerces to true exactly when it is "1" or a spelling of
\* "true" or "yes" in any letter case, to false exactly when it is "0" or a spelling
\* of "false" or "no", and is a ParseError otherwise.
C10_BoolCoercion ==
    (cKind = "Bool" /\ cRes.err # "pending") =>
        IF ToLower(cRaw) \in BoolTrueWords THEN cRes.err = "" /\ cRes.v = TRUE
        ELSE IF ToLower(cRaw) \in BoolFalseWords THEN cRes.err = "" /\ cRes.v = FALSE
        ELSE cRes.err # ""

\* C11: an integer text whose value is outside the range of the target field's kind
\* (signed or unsigned, 8 or 16 bits; the wider kinds hold every value of the model)
\* is a parse error, and a coercion that succeeds stores the value the text denotes,
\* never a wrapped or truncated one.
C11_IntegerRange ==
    (cKind \in IntTargets /\ cRes.err # "pending") =>
        LET p == ParseInt(cleanNumOptimized(cRaw))
            w == 2 ^ Bits(cKind)
            inRange == IF Bits(cKind) >= 32 THEN cKind \in UintKinds => p.v >= 0
                       ELSE IF cKind \in UintKinds THEN p.v >= 0 /\ p.v < w
                       ELSE p.v >= 0 - (w \div 2) /\ p.v < w \div 2
        IN  /\ (p.ok /\ ~inRange) => cRes.err # ""
            /\ (p.ok /\ cRes.err = "") => cRes.v = p.v

\* C12: a whole-number serial n >= 0 coerces to the time n days after
\* 1899-12-30 00:00:00 UTC, to the second, and so does the YYYY-MM-DD text of the
\* calendar date n days after 1899-12-30.
C12_SerialTimestamp ==
    (cKind = "Time" /\ cRes.err # "pending") =>
        /\ AllDigits(cRaw) =>
              (cRes.err = "" /\ cRes.v = [day |-> DigitsVal(cRaw), sec |-> 0, nsec |-> 0])
        /\ \A p \in SerialDates : cRaw = p.date =>
              (cRes.err = "" /\ cRes.v = [day |-> DigitsVal(p.serial), sec |-> 0, nsec |-> 0])

(***************************************************************************)
(* Properties of the column utility.                                       *)
(***************************************************************************)
IsLetter(c) == IsUpper(c) \/ IsLower(c)

\* The part of C21 on idxToCol and on the round trip: idxToCol(0) = "A",
\* idxToCol(25) = "Z", idxToCol(26) = "AA", and colToIdx gives back the index
LabelRoundTrip ==
    /\ (colArg.kind = "idx" /\ Len(colRes) >= 1) =>
           /\ colArg.v = 0 => colRes[1] = <<"A">>
           /\ colArg.v = 25 => colRes[1] = <<"Z">>
           /\ colArg.v = 26 => colRes[1] = <<"A","A">>
    /\ (colArg.kind = "idx" /\ Len(colRes) = 2) =>
           colRes[2].ok /\ colRes[2].idx = colArg.v

\* colToIdx on the text t of the call made: invalid when t is empty or has a
\* non-letter, else the index of the label that is t in upper case
TextVerdict(t) ==
    IF t = <<>> \/ \E i \in 1..Len(t) : ~IsLetter(t[i])
    THEN ~colRes[1].ok
    ELSE colRes[1].ok /\ idxToCol(colRes[1].idx) = ToUpper(t)

C25_CallReturns == <>(prod.pc = "returned")

\* C26: when the worker-pool getRows has returned, with a page or with an error,
\* every worker goroutine it started terminates in the end.
C26_WorkersTerminate ==
    (prod.pc = "returned") ~> (\A w \in 1..Len(wk) : wk[w].pc = "done")

\* C28: a call only appends to the caller's slice: from its first step on, the
\* slice starts with the records it held before the call.
C28_OnlyAppends ==
    (prod.pc # "start") =>
        /\ Len(out) >= Len(last.before.out)
        /\ SubSeq(out, 1, Len(last.before.out)) = last.before.out

(***************************************************************************)
(* Properties of the cursor lifecycle.                                     *)
(***************************************************************************)
\* The cursors the session has opened and not released
Unreleased == (1..opened) \ released

\* C27: after any sequence of Read, Next and CloseRow calls at most one cursor the
\* session opened is unreleased, and after a CloseRow call that returned none is: a
\* second Read, or a Read that fails after it opened its cursor, leaves no cursor
\* CloseRow cannot reach.
C27_NoCursorLeak ==
    /\ Cardinality(Unreleased) <= 1
    /\ (last.op = "CloseRow" /\ last.err = NoErr) => Unreleased = {}

C23_TableRoundTrip ==
    (table.made /\ table.err = "") =>
        /\ GetHeaders(book) = table.headers
        /\ Len(ConvertToMap(book)) = Len(table.data)
        /\ \A k \in 1..Len(table.data) :
              /\ DOMAIN ConvertToMap(book)[k] = {table.headers[i] : i \in 1..Len(table.headers)}
              /\ Cardinality(DOMAIN ConvertToMap(book)[k]) = Len(table.headers)
              /\ \A i \in 1..Len(table.headers) :
                    ConvertToMap(book)[k][table.headers[i]] =
                       IF i <= Len(table.data[k]) THEN cellText(table.data[k][i]) ELSE <<>>

\* The tables that are read back as they were written: the header names are not
\* empty and differ, and the last data row has a value that is not empty
PlainTable ==
    /\ \A i \in 1..Len(table.headers) : table.headers[i] # <<>>
    /\ \A i, j \in 1..Len(table.headers) : i # j => table.headers[i] # table.headers[j]
    /\ table.data # <<>> =>
          \E i \in 1..Len(table.data[Len(table.data)]) : cellText(table.data[Len(table.data)][i]) # <<>>

====
